---- MODULE Spec2Model ----
(***************************************************************************)
(* A model of neomake: planning, execution, watching and the conversions   *)
(* around them.                                                            *)
(*                                                                         *)
(* SpecPlan       : dependency stratification (Compiler::determine_order). *)
(* SpecPlanOrders : the same with the target set iterated in any order.    *)
(* SpecBuild      : Compiler::plan, from the stages to the ExecutionPlan.  *)
(* SpecExec       : stage-by-stage execution of a plan on a worker pool.   *)
(* SpecWork       : the shell, workdir and command line of a work item.    *)
(* SpecOutput     : child output printed through the shared Controller.    *)
(* SpecEnv        : compilation and layering of env maps.                  *)
(* SpecMatrix     : Matrix::compile, the invocations of a node.            *)
(* SpecRender     : arg structuring and script rendering.                  *)
(* SpecWatch      : the event callback of the watch command.               *)
(* SpecKind       : the kind string of a filesystem event.                 *)
(* SpecLoad       : Workflow::load and its version check.                  *)
(* SpecArgs       : command line loading and the experimental gate.        *)
(* SpecFormat     : serialization of a plan and reading it back.           *)
(***************************************************************************)
EXTENDS Integers, Sequences, FiniteSets, TLC

(***************************************************************************)
(* Bounds of the model.                                                    *)
(***************************************************************************)
\* longest `pre` list of a workflow node
MaxPre == 2

\* node names a workflow, a target set or a `pre` list may use
Names == {"a", "b", "c"}

\* the names in one fixed order
NameSeq == <<"a", "b", "c">>

(***************************************************************************)
(* Option<T>: None, or Some(v).                                            *)
(***************************************************************************)
None == [some |-> FALSE, val |-> <<>>]
Some(v) == [some |-> TRUE, val |-> v]

RECURSIVE SeqsUpTo(_, _)
SeqsUpTo(S, n) ==
    IF n = 0 THEN {<<>>}
    ELSE LET shorter == SeqsUpTo(S, n - 1)
         IN  shorter \cup {Append(s, x) : s \in {t \in shorter : Len(t) = n - 1}, x \in S}

Range(s) == {s[i] : i \in 1..Len(s)}

\* the orders in which `pending.extend(exec)` may push a target set: a HashSet
\* iterates in any order, and since the workflows range over all assignments of
\* `pre` lists to names, every target set in every order is one of these up to
\* a renaming of the nodes
TargetOrders == {SubSeq(NameSeq, 1, n) : n \in 0..Len(NameSeq)}

(***************************************************************************)
(* The planner's input: workflow.nodes, reduced to what determine_order    *)
(* reads of a node: its `pre`.                                             *)
(***************************************************************************)
PreOptions == {None} \cup {Some(p) : p \in SeqsUpTo(Names, MaxPre)}

Workflows == UNION {[K -> [pre : PreOptions]] : K \in SUBSET Names}

VARIABLES
    \* ---- planner (SpecPlan) ----
    workflow,   \* self.workflow.nodes : name -> Node
    exec,       \* the target set handed to determine_order
    pushed,     \* the order in which the target set was iterated into pending
    pending,    \* VecDeque of names still to visit
    seen,       \* HashSet of names
    map,        \* HashMap name -> Vec of prerequisites
    result,     \* Vec<HashSet<String>>: the stages built so far
    ppc,        \* position in determine_order: "traverse" | "drain" | "done"
    order,      \* what determine_order returned
    \* ---- execution engine (SpecExec) ----
    plan,       \* the ExecutionPlan handed to execute
    workers,    \* the worker count handed to execute
    epc,        \* position of execute's thread: "dispatch" | "recv" | "done"
    si,         \* index of the stage the `for stage` loop is at
    signal_cnt, \* the outcomes the stage's receive loop will take
    taken,      \* the outcomes taken so far
    signal,     \* the stage's mpsc channel: outcomes sent and not yet received
    errs,       \* the errors collected from the taken outcomes
    jobs,       \* per stage, the pool's queue of work items not yet started
    work,       \* per work item, how far its closure has run
    ret,        \* what execute returned
    \* ---- environment maps (SpecEnv) ----
    wenv,       \* workflow.env: the env block the plan's env is compiled from
    process_env,\* std::env::vars(): the process environment
    envs,       \* plan.env, node.env, matrix.env and task.env of one task
    env,        \* the env map execute gives the task's child
    envpc,      \* "compile" | "compose" | "done" | "err"
    \* ---- matrix compiler (SpecMatrix) ----
    node_matrix,\* node_def.matrix of the node being planned
    rendered,   \* the planned node: its stage and invocations, or the error
    mpc,        \* "plan" | "done"
    \* ---- watch driver (SpecWatch) ----
    watch_args, \* the args of Command::Watch
    plan_args,  \* the args c.plan was last called with by the callback
    queue,      \* watch.queue
    root,       \* the canonical watch root, by its characters
    regex,      \* watch.filter, by the strings it matches
    exec_state, \* None when queue, else Some(flag): the single-flight flag
    watcher,    \* the thread that calls the event callback: "watching" | "panicked"
    cpc,        \* where the callback is: "idle" | "plan"
    handled,    \* per event: what the callback did with it
    threads,    \* per event: the state of its execution thread
    \* ---- script rendering (SpecRender) ----
    args,       \* the args of the plan call: key -> value
    script,     \* task.script, by its literal and placeholder parts
    arg_vals,   \* what compile_exec_args returned, or its panic
    rendered_cmd, \* what render_template returned for the script
    rpc,        \* "args" | "render" | "done"
    \* ---- Workflow::load (workflow.rs) ----
    data,       \* the YAML document handed to load
    versioned,  \* what from_str::<Versioned> gave
    full,       \* what from_str::<Workflow> gave, "none" if it was not run
    loaded,     \* what load returned
    lpc,        \* "idle" | "versioned" | "check" | "full" | "done"
    \* ---- ClapArgumentLoader::load and CallArgs::validate (args.rs) ----
    argv,       \* the command line: the experimental flag and the subcommand
    callargs,   \* the CallArgs built from it
    validation, \* what validate returned
    apc,        \* "idle" | "load" | "validate" | "done"
    \* ---- Format::serialize and Format::deserialize (args.rs) ----
    planned,    \* the ExecutionPlan handed to serialize
    format,     \* the Format
    serialized, \* what serialize returned: the document written
    deserialized,\* what deserialize returned for that document
    fpc,        \* "idle" | "serialize" | "deserialize" | "done"
    \* ---- the Work of one task and its child process (exec.rs) ----
    tasknode,   \* the task and the node it belongs to
    witem,      \* the Work pushed for the task
    cmd_proc,   \* the std::process::Command built from the Work
    wpc,        \* "idle" | "work" | "spawn" | "done"
    \* ---- event kinds ----
    events,     \* the kinds of the events delivered to the callback, in order
    kind_strs,  \* event_kind of the events handled so far
    kpc,        \* "idle" | "mapping" | "done"
    \* ---- plan construction ----
    node_tasks, \* per workflow node, the scripts of its tasks
    built,      \* what Compiler::plan has built of the ExecutionPlan, and how plan returned
    bpc,        \* position in Compiler::plan: "order" | "stages" | "done"
    \* ---- output controller ----
    output,     \* the engine's Controller behind its mutex: enabled flag and prefix
    mutex,      \* the worker whose callback holds the lock on the controller, 0 for none
    child_out,  \* per worker, the lines its child processes have yet to hand to the callback
    printing,   \* per worker, what the print under way has yet to write
    sink        \* what has been written to the controller's sink, write by write

plannerVars == <<workflow, exec, pushed, pending, seen, map, result, ppc, order>>

execVars == <<plan, workers, epc, si, signal_cnt, taken, signal, errs, jobs, work, ret>>

envVars == <<wenv, process_env, envs, env, envpc>>

matrixVars == <<node_matrix, rendered, mpc>>

watchVars == <<watch_args, plan_args, queue, root, regex, exec_state, watcher, cpc, handled, threads>>

renderVars == <<args, script, arg_vals, rendered_cmd, rpc>>

loadVars == <<data, versioned, full, loaded, lpc>>

argsVars == <<argv, callargs, validation, apc>>

formatVars == <<planned, format, serialized, deserialized, fpc>>

workVars == <<tasknode, witem, cmd_proc, wpc>>

kindVars == <<events, kind_strs, kpc>>

buildVars == <<node_tasks, built, bpc>>

outputVars == <<output, mutex, child_out, printing, sink>>

vars == <<plannerVars, execVars, envVars, matrixVars, watchVars, renderVars, loadVars, argsVars, formatVars, workVars, kindVars, buildVars, outputVars>>

\* what the planner's steps leave alone
notPlanner == <<execVars, envVars, matrixVars, watchVars, renderVars, loadVars, argsVars, formatVars, workVars, kindVars, buildVars, outputVars>>

\* what the execution engine's steps leave alone
notExec == <<plannerVars, envVars, matrixVars, watchVars, renderVars, loadVars, argsVars, formatVars, workVars, kindVars, buildVars, outputVars>>

\* what the steps on environment maps leave alone
notEnv == <<plannerVars, execVars, matrixVars, watchVars, renderVars, loadVars, argsVars, formatVars, workVars, kindVars, buildVars, outputVars>>

\* what the matrix compiler leaves alone
notMatrix == <<plannerVars, execVars, envVars, watchVars, renderVars, loadVars, argsVars, formatVars, workVars, kindVars, buildVars, outputVars>>

\* what the watch driver leaves alone
notWatch == <<plannerVars, execVars, envVars, matrixVars, renderVars, loadVars, argsVars, formatVars, workVars, kindVars, buildVars, outputVars>>

\* what the rendering of a script leaves alone
notRender == <<plannerVars, execVars, envVars, matrixVars, watchVars, loadVars, argsVars, formatVars, workVars, kindVars, buildVars, outputVars>>

\* what loading a workflow leaves alone
notLoad == <<plannerVars, execVars, envVars, matrixVars, watchVars, renderVars, argsVars, formatVars, workVars, kindVars, buildVars, outputVars>>

\* what reading the command line leaves alone
notArgs == <<plannerVars, execVars, envVars, matrixVars, watchVars, renderVars, loadVars, formatVars, workVars, kindVars, buildVars, outputVars>>

\* what serializing a plan leaves alone
notFormat == <<plannerVars, execVars, envVars, matrixVars, watchVars, renderVars, loadVars, argsVars, workVars, kindVars, buildVars, outputVars>>

\* what building a Work leaves alone
notWork == <<plannerVars, execVars, envVars, matrixVars, watchVars, renderVars, loadVars, argsVars, formatVars, kindVars, buildVars, outputVars>>

\* what the mapping of event kinds leaves alone
notKind == <<plannerVars, execVars, envVars, matrixVars, watchVars, renderVars, loadVars, argsVars, formatVars, workVars, buildVars, outputVars>>

\* what the construction of the plan leaves alone
notBuild == <<plannerVars, execVars, envVars, matrixVars, watchVars, renderVars, loadVars, argsVars, formatVars, workVars, kindVars, outputVars>>

\* what the printing of child output leaves alone
notOutput == <<plannerVars, execVars, envVars, matrixVars, watchVars, renderVars, loadVars, argsVars, formatVars, workVars, kindVars, buildVars>>

(***************************************************************************)
(* determine_order, first loop: collect the prerequisites of everything    *)
(* reachable from the targets.                                             *)
(***************************************************************************)
NoOrder == [kind |-> "none", name |-> "", stages |-> <<>>]
OkOrder(st) == [kind |-> "Ok", name |-> "", stages |-> st]
ErrNotFound(n) == [kind |-> "NotFound", name |-> n, stages |-> <<>>]
ErrNodeRecursion == [kind |-> "NodeRecursion", name |-> "", stages |-> <<>>]

\* a lookup that treats a missing node as a node without prerequisites
LookupSkipMissing(wf, n) ==
    IF n \notin DOMAIN wf THEN [found |-> TRUE, pre |-> <<>>]
    ELSE [found |-> TRUE, pre |-> IF wf[n].pre.some THEN wf[n].pre.val ELSE <<>>]

\* a lookup that records only the first prerequisite of a node
LookupFirstPre(wf, n) ==
    IF n \notin DOMAIN wf THEN [found |-> FALSE, pre |-> <<>>]
    ELSE [found |-> TRUE,
          pre |-> IF wf[n].pre.some /\ wf[n].pre.val # <<>>
                  THEN <<Head(wf[n].pre.val)>> ELSE <<>>]

\* self.workflow.nodes.get(&next) and the prerequisites recorded for it
Lookup(wf, n) ==
    IF n \notin DOMAIN wf THEN [found |-> FALSE, pre |-> <<>>]
    ELSE [found |-> TRUE, pre |-> IF wf[n].pre.some THEN wf[n].pre.val ELSE <<>>]

\* the execution engine is not running
ExecIdle ==
    /\ plan = "idle"
    /\ workers = 1
    /\ epc = "idle"
    /\ si = 1
    /\ signal_cnt = 0
    /\ taken = 0
    /\ signal = "idle"
    /\ errs = "idle"
    /\ jobs = "idle"
    /\ work = "idle"
    /\ ret = "idle"

\* no environment map is being built
EnvIdle ==
    /\ wenv = "idle"
    /\ process_env = "idle"
    /\ envs = "idle"
    /\ env = "idle"
    /\ envpc = "idle"

\* no node's matrix is being compiled
MatrixIdle ==
    /\ node_matrix = "idle"
    /\ rendered = "idle"
    /\ mpc = "idle"

\* nothing is being watched
WatchIdle ==
    /\ watch_args = "idle"
    /\ plan_args = "idle"
    /\ queue = FALSE
    /\ root = "idle"
    /\ regex = "idle"
    /\ exec_state = "idle"
    /\ watcher = "idle"
    /\ cpc = "idle"
    /\ handled = "idle"
    /\ threads = "idle"

\* no script is being rendered
RenderIdle ==
    /\ args = "idle"
    /\ script = "idle"
    /\ arg_vals = "idle"
    /\ rendered_cmd = "idle"
    /\ rpc = "idle"

\* no workflow is being loaded
LoadIdle ==
    /\ data = "idle"
    /\ versioned = "idle"
    /\ full = "idle"
    /\ loaded = "idle"
    /\ lpc = "idle"

\* no command line is being read
ArgsIdle ==
    /\ argv = "idle"
    /\ callargs = "idle"
    /\ validation = "idle"
    /\ apc = "idle"

\* no plan is being serialized
FormatIdle ==
    /\ planned = "idle"
    /\ format = "idle"
    /\ serialized = "idle"
    /\ deserialized = "idle"
    /\ fpc = "idle"

\* no Work is being built
WorkIdle ==
    /\ tasknode = "idle"
    /\ witem = "idle"
    /\ cmd_proc = "idle"
    /\ wpc = "idle"

\* no event kind is being mapped
KindIdle ==
    /\ events = "idle"
    /\ kind_strs = "idle"
    /\ kpc = "idle"

\* no plan is being built
BuildIdle ==
    /\ node_tasks = "idle"
    /\ built = "idle"
    /\ bpc = "idle"

\* no output is being printed
OutputIdle ==
    /\ output = "idle"
    /\ mutex = 0
    /\ child_out = "idle"
    /\ printing = "idle"
    /\ sink = "idle"

PlanInit ==
    /\ workflow \in Workflows
    /\ pending \in TargetOrders
    /\ exec = Range(pending)
    /\ pushed = pending
    /\ seen = {}
    /\ map = << >>
    /\ result = <<>>
    /\ ppc = "traverse"
    /\ order = NoOrder
    /\ ExecIdle
    /\ EnvIdle
    /\ MatrixIdle
    /\ WatchIdle
    /\ RenderIdle
    /\ LoadIdle
    /\ ArgsIdle
    /\ FormatIdle
    /\ WorkIdle
    /\ KindIdle
    /\ BuildIdle
    /\ OutputIdle

\* one iteration of `while let Some(next) = pending.pop_back()`
TraverseStep ==
    /\ ppc = "traverse"
    /\ pending # <<>>
    /\ LET next == pending[Len(pending)]
           rest == SubSeq(pending, 1, Len(pending) - 1)
           c    == Lookup(workflow, next)
       IN  IF next \in seen
           THEN /\ pending' = rest
                /\ UNCHANGED <<seen, map, ppc, order>>
           ELSE /\ seen' = seen \cup {next}
                /\ IF ~c.found
                   THEN /\ order' = ErrNotFound(next)
                        /\ ppc' = "done"
                        /\ pending' = rest
                        /\ UNCHANGED map
                   ELSE /\ map' = (next :> c.pre) @@ map
                        /\ pending' = rest \o c.pre
                        /\ UNCHANGED <<ppc, order>>
    /\ UNCHANGED <<workflow, exec, pushed, result>>
    /\ UNCHANGED notPlanner

\* the first loop ends: seen.clear()
TraverseEnd ==
    /\ ppc = "traverse"
    /\ pending = <<>>
    /\ seen' = {}
    /\ ppc' = "drain"
    /\ UNCHANGED <<workflow, exec, pushed, pending, map, result, order>>
    /\ UNCHANGED notPlanner

(***************************************************************************)
(* determine_order, second loop: drain the nodes whose prerequisites are   *)
(* all seen; each drained set is the next stage.                           *)
(***************************************************************************)
\* leafs that ignore a node's reference to itself
LeafsIgnoreSelf(m, s) == {k \in DOMAIN m : \A i \in 1..Len(m[k]) : m[k][i] \in s \cup {k}}

\* leafs that need only one seen prerequisite
LeafsAnySeen(m, s) ==
    {k \in DOMAIN m : m[k] = <<>> \/ \E i \in 1..Len(m[k]) : m[k][i] \in s}

\* leafs that count what is seen already as ready again
LeafsOrSeen(m, s) == {k \in DOMAIN m : \A i \in 1..Len(m[k]) : m[k][i] \in s} \cup s

\* leafs that hold one node at most
LeafsOneByOne(m, s) ==
    LET l == {k \in DOMAIN m : \A i \in 1..Len(m[k]) : m[k][i] \in s}
    IN  IF l = {} THEN {} ELSE {CHOOSE k \in l : TRUE}

\* the filter_map over map: the keys all of whose prerequisites are seen
Leafs(m, s) == {k \in DOMAIN m : \A i \in 1..Len(m[k]) : m[k][i] \in s}

\* one iteration of `while map.len() > 0`
DrainStep ==
    /\ ppc = "drain"
    /\ DOMAIN map # {}
    /\ LET leafs == Leafs(map, seen)
       IN  IF leafs = {}
           THEN /\ order' = ErrNodeRecursion
                /\ ppc' = "done"
                /\ map' = [k \in DOMAIN map \ leafs |-> map[k]]
                /\ UNCHANGED <<seen, result>>
           ELSE /\ map' = [k \in DOMAIN map \ leafs |-> map[k]]
                /\ seen' = seen \cup leafs
                /\ result' = Append(result, leafs)
                /\ UNCHANGED <<ppc, order>>
    /\ UNCHANGED <<workflow, exec, pushed, pending>>
    /\ UNCHANGED notPlanner

\* the second loop ends: Ok(result)
DrainEnd ==
    /\ ppc = "drain"
    /\ DOMAIN map = {}
    /\ order' = OkOrder(result)
    /\ ppc' = "done"
    /\ UNCHANGED <<workflow, exec, pushed, pending, seen, map, result>>
    /\ UNCHANGED notPlanner

PlanNext == TraverseStep \/ TraverseEnd \/ DrainStep \/ DrainEnd

SpecPlan == PlanInit /\ [][PlanNext]_vars

\* every order in which a HashSet of targets may be iterated
AllTargetOrders == {q \in SeqsUpTo(Names, Cardinality(Names)) : Cardinality(Range(q)) = Len(q)}

\* the workflows whose nodes list no prerequisite twice
PlainWorkflows ==
    {w \in Workflows : \A n \in DOMAIN w : w[n].pre.some => Cardinality(Range(w[n].pre.val)) = Len(w[n].pre.val)}

\* determine_order entered with the target set iterated in any order
PlanOrdersInit ==
    /\ workflow \in PlainWorkflows
    /\ pending \in AllTargetOrders
    /\ exec = Range(pending)
    /\ pushed = pending
    /\ seen = {}
    /\ map = << >>
    /\ result = <<>>
    /\ ppc = "traverse"
    /\ order = NoOrder
    /\ ExecIdle
    /\ EnvIdle
    /\ MatrixIdle
    /\ WatchIdle
    /\ RenderIdle
    /\ LoadIdle
    /\ ArgsIdle
    /\ FormatIdle
    /\ WorkIdle
    /\ KindIdle
    /\ BuildIdle
    /\ OutputIdle

SpecPlanOrders == PlanOrdersInit /\ [][PlanNext]_vars

(***************************************************************************)
(* The prerequisite relation of the workflow, as the claims speak of it.   *)
(***************************************************************************)
\* pre(n): the names node n lists; a name that is no key of the workflow has none
PreOf(n) ==
    IF n \in DOMAIN workflow /\ workflow[n].pre.some THEN Range(workflow[n].pre.val) ELSE {}

RECURSIVE ReachIter(_, _)
ReachIter(S, k) ==
    IF k = 0 THEN S ELSE ReachIter(S \cup UNION {PreOf(n) : n \in S}, k - 1)

\* S together with everything reachable from S through pre edges
Reach(S) == ReachIter(S, Cardinality(Names))

\* the direct and transitive prerequisites of n
TransPre(n) == Reach(PreOf(n))

\* names reached from the targets that are no key of workflow.nodes
Missing == Reach(exec) \ DOMAIN workflow

\* the graph reachable from the targets has a cycle (a self reference included)
Cyclic == \E n \in Reach(exec) : n \in TransPre(n)

\* all names occurring in the returned stages
Planned == UNION {order.stages[i] : i \in 1..Len(order.stages)}

(***************************************************************************)
(* C1: whenever the planner succeeds, every planned node lies in a         *)
(* strictly later stage than each of its direct and transitive             *)
(* prerequisites, so no stage holds a node together with one of its        *)
(* prerequisites.                                                          *)
(***************************************************************************)
C1_PrereqsInEarlierStage ==
    order.kind = "Ok" =>
        \A j \in 1..Len(order.stages) : \A a \in order.stages[j] :
            \A b \in TransPre(a) :
                /\ \E i \in 1..(j - 1) : b \in order.stages[i]
                /\ \A i \in j..Len(order.stages) : b \notin order.stages[i]

\* a successful plan of three stages with a node that has two distinct prerequisites
C1_Witness ==
    /\ order.kind = "Ok"
    /\ Len(order.stages) = 3
    /\ \E a \in Planned : Cardinality(PreOf(a)) = 2

(***************************************************************************)
(* C2: whenever the planner succeeds, the union of the returned stages is  *)
(* exactly the transitive closure of the target set over pre; and for a    *)
(* workflow all of whose references resolve and that has no cycle, the     *)
(* planner does succeed.                                                   *)
(***************************************************************************)
C2_StagesAreClosure ==
    /\ order.kind = "Ok" => Planned = Reach(exec)
    /\ (ppc = "done" /\ Missing = {} /\ ~Cyclic) => order.kind = "Ok"

\* a successful plan holding a node that is no target, for a workflow with a node left out
C2_Witness ==
    /\ order.kind = "Ok"
    /\ exec # {}
    /\ Planned \ exec # {}
    /\ DOMAIN workflow \ Planned # {}

(***************************************************************************)
(* C3 as stated: a cycle in the graph reachable from the targets makes     *)
(* planning fail with NodeRecursion; and with all references resolved and  *)
(* no cycle, NodeRecursion is never reported.                              *)
(***************************************************************************)
C3_Original ==
    ppc = "done" =>
        /\ Cyclic => order.kind = "NodeRecursion"
        /\ (Missing = {} /\ ~Cyclic) => order.kind # "NodeRecursion"

(***************************************************************************)
(* C3 amended: if every name reachable from the targets is a key of the    *)
(* workflow and the reachable graph has a cycle, planning fails with       *)
(* NodeRecursion and returns no stages; with all references resolved and   *)
(* no cycle, NodeRecursion is never reported.                              *)
(***************************************************************************)
C3_CycleIsNodeRecursion ==
    ppc = "done" =>
        /\ (Cyclic /\ Missing = {}) => (order.kind = "NodeRecursion" /\ order.stages = <<>>)
        /\ (Missing = {} /\ ~Cyclic) => order.kind # "NodeRecursion"

\* a cycle found only after a first stage had been drained
C3_Witness ==
    /\ ppc = "done"
    /\ Cyclic
    /\ Missing = {}
    /\ order.kind = "NodeRecursion"
    /\ result # <<>>

(***************************************************************************)
(* C4: if a target, or a name reached from the targets through pre edges,  *)
(* is no key of the workflow's node map, planning fails with NotFound      *)
(* carrying such a name and returns no stages; NotFound is reported for    *)
(* no other name.                                                          *)
(***************************************************************************)
C4_MissingIsNotFound ==
    /\ (ppc = "done" /\ Missing # {}) =>
           (order.kind = "NotFound" /\ order.name \in Missing /\ order.stages = <<>>)
    /\ order.kind = "NotFound" => order.name \in Missing

\* NotFound for a name that is no target but a prerequisite of a planned node
C4_Witness ==
    /\ order.kind = "NotFound"
    /\ order.name \notin exec
    /\ \E n \in DOMAIN map : order.name \in PreOf(n)

(***************************************************************************)
(* The execution engine: ExecutionEngine::execute.                         *)
(***************************************************************************)
\* most stages of a plan
MaxStages == 2
\* most tasks of a plan node
MaxTasks == 2
\* most invocations of a plan node
MaxInvocations == 1
\* largest worker count
MaxWorkers == 2
\* largest exit code of a child
MaxExitCode == 1

\* what ExitStatus::code() can give: Some(code), or None for a child killed by a signal
ExitStatuses == {None} \cup {Some(c) : c \in 0..MaxExitCode}

\* the planner is not running
PlanIdle ==
    /\ workflow = "idle"
    /\ exec = "idle"
    /\ pushed = "idle"
    /\ pending = "idle"
    /\ seen = "idle"
    /\ map = "idle"
    /\ result = "idle"
    /\ ppc = "idle"
    /\ order = "idle"

\* plan::Node reduced to what execute's scheduling reads: how many invocations
\* and how many tasks it has
PlanNodes == [invocations : 0..MaxInvocations, tasks : 0..MaxTasks]

RECURSIVE SumOver(_, _)
SumOver(f, q) == IF q = <<>> THEN 0 ELSE f[Head(q)] + SumOver(f, Tail(q))

RECURSIVE Flatten(_)
Flatten(qq) == IF qq = <<>> THEN <<>> ELSE Head(qq) \o Flatten(Tail(qq))

\* the stage lists: node names are interchangeable, so the stages list a prefix
\* of NameSeq, cut into at most MaxStages stages (a stage may be empty)
StageLists ==
    {q \in UNION {[1..n -> {SubSeq(NameSeq, x, y) : x \in 1..(Len(NameSeq) + 1), y \in 0..Len(NameSeq)}] :
                      n \in 0..MaxStages} :
        \E n \in 0..Len(NameSeq) : Flatten(q) = SubSeq(NameSeq, 1, n)}

\* the plans with the stages st: the keys of plan.nodes are the names of the
\* stages, each in one stage only
PlansOf(st) ==
    {[stages |-> st, nodes |-> nd] : nd \in [UNION {Range(st[i]) : i \in DOMAIN st} -> PlanNodes]}

\* the work items of stage s in dispatch order: one per (node, invocation)
StageItems(p, s) ==
    Flatten([x \in 1..Len(p.stages[s]) |->
                [v \in 1..p.nodes[p.stages[s][x]].invocations |->
                    [stage |-> s, node |-> p.stages[s][x], inv |-> v]]])

Items(p) == UNION {Range(StageItems(p, s)) : s \in 1..Len(p.stages)}

\* signal_cnt after the dispatch loops: `signal_cnt += 1` runs once per task of
\* every (node, invocation) pair
SignalCnt(p, s) ==
    SumOver([i \in Range(StageItems(p, s)) |-> p.nodes[i.node].tasks], StageItems(p, s))

NoErr == [kind |-> "none"]
\* Error::ChildProcess(format!("command \"{}\" failed with code {}", cmd, code))
ChildProcess(cmd, code) == [kind |-> "ChildProcess", cmd |-> cmd, code |-> code]
\* the io error of a child that could not be spawned or waited for
IoErr(cmd) == [kind |-> "Io", cmd |-> cmd]
\* what `{:?}` prints of the anyhow error e: its Display text, which for
\* Error::ChildProcess is the literal of #[error("child process")]
DebugText(e) == IF e.kind = "ChildProcess" THEN "child process" ELSE "os error"
\* Error::Generic(format!("{:?}", e))
Generic(e) == [kind |-> "Generic", detail |-> DebugText(e)]

\* `if let Some(code) = exit_status.code() { if code != 0 { return Err(..) } }`
ExitFails(status) == status.some /\ status.val # 0

NewWork == [st |-> "none", k |-> 1, child |-> FALSE, last |-> Some(0), failed |-> FALSE, err |-> NoErr]

ExecInit ==
    /\ PlanIdle
    /\ EnvIdle
    /\ MatrixIdle
    /\ \E st \in StageLists : plan \in PlansOf(st)
    /\ workers \in 1..MaxWorkers
    /\ epc = "dispatch"
    /\ si = 1
    /\ signal_cnt = 0
    /\ taken = 0
    /\ signal = <<>>
    /\ errs = <<>>
    /\ jobs = [s \in 1..Len(plan.stages) |-> <<>>]
    /\ work = [i \in Items(plan) |-> NewWork]
    /\ ret = [kind |-> "none", errs |-> <<>>]
    /\ WatchIdle
    /\ RenderIdle
    /\ LoadIdle
    /\ ArgsIdle
    /\ FormatIdle
    /\ WorkIdle
    /\ KindIdle
    /\ BuildIdle
    /\ OutputIdle

\* one pass of the body of `for stage in &plan.stages` up to the receive loop:
\* a new pool, a new channel, and every (node, invocation) of the stage handed
\* to the pool
DispatchStage ==
    /\ epc = "dispatch"
    /\ si <= Len(plan.stages)
    /\ signal' = <<>>
    /\ taken' = 0
    /\ errs' = <<>>
    /\ signal_cnt' = SignalCnt(plan, si)
    /\ jobs' = [jobs EXCEPT ![si] = StageItems(plan, si)]
    /\ work' = [i \in DOMAIN work |->
                   IF i.stage = si THEN [work[i] EXCEPT !.st = "queued"] ELSE work[i]]
    /\ epc' = "recv"
    /\ UNCHANGED <<plan, workers, si, ret>>
    /\ UNCHANGED notExec

\* a pool thread takes the next queued work item; a pool has `workers` threads
ItemStart ==
    /\ \E s \in DOMAIN jobs :
        /\ jobs[s] # <<>>
        /\ Cardinality({i \in DOMAIN work : i.stage = s /\ work[i].st = "running"}) < workers
        /\ jobs' = [jobs EXCEPT ![s] = Tail(jobs[s])]
        /\ work' = [work EXCEPT ![Head(jobs[s])].st = "running"]
    /\ UNCHANGED <<plan, workers, epc, si, signal_cnt, taken, signal, errs, ret>>
    /\ UNCHANGED notExec

\* `for w in work`: the next task's child is spawned, or cannot be spawned
TaskSpawn ==
    /\ \E i \in DOMAIN work :
        /\ work[i].st = "running"
        /\ ~work[i].child
        /\ ~work[i].failed
        /\ work[i].k <= plan.nodes[i.node].tasks
        /\ \/ work' = [work EXCEPT ![i].child = TRUE]
           \/ work' = [work EXCEPT ![i].failed = TRUE, ![i].err = IoErr(<<i.node, work[i].k>>)]
    /\ UNCHANGED <<plan, workers, epc, si, signal_cnt, taken, signal, errs, jobs, ret>>
    /\ UNCHANGED notExec

\* wait() returns the child's exit status
TaskExit ==
    /\ \E i \in DOMAIN work : \E status \in ExitStatuses :
        /\ work[i].child
        /\ IF ExitFails(status)
           THEN work' = [work EXCEPT ![i].child = FALSE, ![i].last = status, ![i].failed = TRUE,
                                     ![i].err = ChildProcess(<<i.node, work[i].k>>, status.val)]
           ELSE work' = [work EXCEPT ![i].child = FALSE, ![i].last = status, ![i].k = @ + 1]
    /\ UNCHANGED <<plan, workers, epc, si, signal_cnt, taken, signal, errs, jobs, ret>>
    /\ UNCHANGED notExec

\* the closure ends: its one outcome is sent; the send reaches nobody once
\* the stage's receiver is dropped
ItemSend ==
    /\ \E i \in DOMAIN work :
        /\ work[i].st = "running"
        /\ ~work[i].child
        /\ work[i].failed \/ work[i].k > plan.nodes[i.node].tasks
        /\ work' = [work EXCEPT ![i].st = "finished"]
        /\ IF epc = "recv" /\ i.stage = si
           THEN signal' = Append(signal, [item |-> i, ok |-> ~work[i].failed,
                                          err |-> IF work[i].failed THEN Generic(work[i].err)
                                                  ELSE NoErr])
           ELSE UNCHANGED signal
    /\ UNCHANGED <<plan, workers, epc, si, signal_cnt, taken, errs, jobs, ret>>
    /\ UNCHANGED notExec

\* signal_rx.iter().take(signal_cnt): one more outcome is received
Recv ==
    /\ epc = "recv"
    /\ taken < signal_cnt
    /\ signal # <<>>
    /\ signal' = Tail(signal)
    /\ taken' = taken + 1
    /\ errs' = IF Head(signal).ok THEN errs ELSE Append(errs, Head(signal).err)
    /\ UNCHANGED <<plan, workers, epc, si, signal_cnt, jobs, work, ret>>
    /\ UNCHANGED notExec

\* signal_cnt outcomes are taken: Err(Many(errs)) if any is an error, else the next stage
StageEnd ==
    /\ epc = "recv"
    /\ taken = signal_cnt
    /\ IF errs # <<>>
       THEN /\ ret' = [kind |-> "Many", errs |-> errs]
            /\ epc' = "done"
            /\ UNCHANGED si
       ELSE /\ si' = si + 1
            /\ epc' = "dispatch"
            /\ UNCHANGED ret
    /\ UNCHANGED <<plan, workers, signal_cnt, taken, signal, errs, jobs, work>>
    /\ UNCHANGED notExec

\* the stage loop is over: Ok(())
ExecuteOk ==
    /\ epc = "dispatch"
    /\ si > Len(plan.stages)
    /\ ret' = [kind |-> "Ok", errs |-> <<>>]
    /\ epc' = "done"
    /\ UNCHANGED <<plan, workers, si, signal_cnt, taken, signal, errs, jobs, work>>
    /\ UNCHANGED notExec

ExecNext ==
    \/ DispatchStage
    \/ ItemStart
    \/ TaskSpawn
    \/ TaskExit
    \/ ItemSend
    \/ Recv
    \/ StageEnd
    \/ ExecuteOk

SpecExec == ExecInit /\ [][ExecNext]_vars

(***************************************************************************)
(* What the claims about execute speak of.                                 *)
(***************************************************************************)
\* a pool thread has taken the work item
Started(i) == work[i].st \in {"running", "finished"}

\* the work item's closure has ended and its outcome is sent
Finished(i) == work[i].st = "finished"

\* no task of the work item is running or still to run
TasksDone(i) == ~work[i].child /\ (work[i].failed \/ work[i].k > plan.nodes[i.node].tasks)

\* the work item's closure ended, or will end, with Err
Failed(i) == work[i].failed

\* the work items handed to the pool for the stage the loop is at
Dispatched == {i \in DOMAIN work : i.stage = si /\ work[i].st # "none"}

(***************************************************************************)
(* C5: a work item of a later stage is started only when every work item   *)
(* of every earlier stage has finished all its tasks, and has succeeded.   *)
(***************************************************************************)
C5_StageBarrier ==
    \A i, j \in DOMAIN work :
        (i.stage < j.stage /\ Started(j)) => (TasksDone(i) /\ ~Failed(i))

(***************************************************************************)
(* C6: for each stage the engine waits for exactly one outcome per         *)
(* dispatched work item, however many tasks its node has; so it is never   *)
(* left waiting for an outcome when every work item of the stage has sent  *)
(* its own.                                                                *)
(***************************************************************************)
C6_OneOutcomePerItem ==
    epc = "recv" =>
        /\ signal_cnt = Cardinality(Dispatched)
        /\ ~(/\ \A i \in Dispatched : Finished(i)
             /\ signal = <<>>
             /\ taken < signal_cnt)

(***************************************************************************)
(* C7: execute returns a stage's aggregated error only after all work      *)
(* items of that stage have finished; a failing work item stops no other.  *)
(***************************************************************************)
C7_ErrorAfterStageFinished ==
    ret.kind = "Many" => \A i \in DOMAIN work : i.stage = si => TasksDone(i)

(***************************************************************************)
(* C8: once a work item has failed no work item of a later stage is ever   *)
(* started, and execute returns Many exactly if some work item failed,     *)
(* success exactly if none did.                                            *)
(***************************************************************************)
C8_FailureStopsRun ==
    /\ \A i, j \in DOMAIN work : (Failed(i) /\ i.stage < j.stage) => ~Started(j)
    /\ epc = "done" => (ret.kind = "Many" <=> \E i \in DOMAIN work : Failed(i))
    /\ epc = "done" => (ret.kind = "Ok" <=> \A i \in DOMAIN work : ~Failed(i))

(***************************************************************************)
(* C9: the Many error of a failed stage has exactly one entry per failed   *)
(* work item of the stage, and each entry is a ChildProcess error naming   *)
(* the failing command and its exit code (stated for the stages whose      *)
(* failures are all children that exited with a non-zero code).            *)
(***************************************************************************)
C9_ManyHoldsChildProcessErrors ==
    LET failed == {i \in DOMAIN work : i.stage = si /\ Failed(i)}
    IN  (ret.kind = "Many" /\ \A i \in failed : work[i].err.kind = "ChildProcess") =>
            /\ Len(ret.errs) = Cardinality(failed)
            /\ \A x \in 1..Len(ret.errs) : ret.errs[x].kind = "ChildProcess"
            /\ \A i \in failed : \E x \in 1..Len(ret.errs) : ret.errs[x] = work[i].err

(***************************************************************************)
(* C10: within a work item a task's child is spawned only after the        *)
(* previous task's child has exited with code 0, and no child runs once a  *)
(* task of the item has failed.                                            *)
(***************************************************************************)
C10_TasksInSequence ==
    \A i \in DOMAIN work :
        /\ (work[i].child /\ work[i].k > 1) => work[i].last = Some(0)
        /\ work[i].failed => ~work[i].child

(***************************************************************************)
(* C11: at every moment at most `workers` work items are executing; here   *)
(* counted by their running children, of which an executing work item has  *)
(* at most one.                                                            *)
(***************************************************************************)
C11_AtMostWorkersExecuting ==
    (epc # "idle") => Cardinality({i \in DOMAIN work : work[i].child}) <= workers

(***************************************************************************)
(* C12: a task whose child ended with a non-zero exit code, or without an  *)
(* exit code (killed by a signal), has failed with a ChildProcess error;   *)
(* only an exit with code 0 lets the work item go on.                      *)
(***************************************************************************)
C12_OnlyExitZeroSucceeds ==
    \A i \in DOMAIN work :
        work[i].last # Some(0) => (work[i].failed /\ work[i].err.kind = "ChildProcess")

(***************************************************************************)
(* Environment maps: Env::compile (workflow.rs) and the composition of a   *)
(* task's environment in execute (exec.rs).                                *)
(***************************************************************************)
\* the variable names in use
EnvKeys == {"X", "Y"}

\* the maps of one source: every key it defines carries the source's own value
MapsOf(v) == UNION {[K -> {v}] : K \in SUBSET EnvKeys}

\* a regex over variable names, by the names it matches; `valid` is whether
\* fancy_regex::Regex::new accepts it
Regexes == {[valid |-> FALSE, matches |-> {}]} \cup {[valid |-> TRUE, matches |-> M] : M \in SUBSET EnvKeys}

\* workflow::Env
EnvBlocks ==
    [capture : {None} \cup {Some(r) : r \in Regexes},
     vars : {None} \cup {Some(m) : m \in MapsOf("vars")}]

\* HashMap::extend that keeps the entry a key already has
ExtendKeepOld(m, e) == [k \in DOMAIN m \cup DOMAIN e |-> IF k \in DOMAIN m THEN m[k] ELSE e[k]]

\* HashMap::extend / insert: the entries of e replace those of m
Extend(m, e) == [k \in DOMAIN m \cup DOMAIN e |-> IF k \in DOMAIN e THEN e[k] ELSE m[k]]

\* the process variables whose name the regex matches
Captured(r, penv) == [k \in DOMAIN penv \cap r.matches |-> penv[k]]

\* Env::compile: the map starts as vars, then every captured variable is inserted
EnvCompile(e, penv) ==
    LET vars0 == IF e.vars.some THEN e.vars.val ELSE << >>
    IN  IF ~e.capture.some THEN [ok |-> TRUE, map |-> vars0]
        ELSE IF ~e.capture.val.valid THEN [ok |-> FALSE, map |-> << >>]
        ELSE [ok |-> TRUE, map |-> Extend(vars0, Captured(e.capture.val, penv))]

\* exec.rs: plan.env.clone(), then extended by node.env, matrix.env and task.env
EffectiveEnv(e) == Extend(Extend(Extend(e.plan, e.node), e.matrix), e.task)

EnvInit ==
    /\ PlanIdle
    /\ ExecIdle
    /\ MatrixIdle
    /\ wenv \in {None} \cup {Some(b) : b \in EnvBlocks}
    /\ process_env \in MapsOf("process")
    /\ envs \in [plan : {<< >>}, node : MapsOf("node"), matrix : MapsOf("matrix"), task : MapsOf("task")]
    /\ env = << >>
    /\ envpc = "compile"
    /\ WatchIdle
    /\ RenderIdle
    /\ LoadIdle
    /\ ArgsIdle
    /\ FormatIdle
    /\ WorkIdle
    /\ KindIdle
    /\ BuildIdle
    /\ OutputIdle

\* Compiler::plan: plan.env is the compiled workflow.env, or empty without one
PlanEnv ==
    /\ envpc = "compile"
    /\ LET c == IF wenv.some THEN EnvCompile(wenv.val, process_env) ELSE [ok |-> TRUE, map |-> << >>]
       IN  IF c.ok
           THEN /\ envs' = [envs EXCEPT !.plan = c.map]
                /\ envpc' = "compose"
           ELSE /\ envpc' = "err"
                /\ UNCHANGED envs
    /\ UNCHANGED <<wenv, process_env, env>>
    /\ UNCHANGED notEnv

\* execute: the env of one task of one invocation of one node
ComposeEnv ==
    /\ envpc = "compose"
    /\ env' = EffectiveEnv(envs)
    /\ envpc' = "done"
    /\ UNCHANGED <<wenv, process_env, envs>>
    /\ UNCHANGED notEnv

EnvNext == PlanEnv \/ ComposeEnv

SpecEnv == EnvInit /\ [][EnvNext]_vars

(***************************************************************************)
(* C13: for every key the env given to the child holds the value of the    *)
(* last of (plan.env, node.env, matrix.env, task.env) that defines the     *)
(* key, and a key none of the four defines is not set.                     *)
(***************************************************************************)
EnvChain == <<envs.plan, envs.node, envs.matrix, envs.task>>

C13_LastDefinitionWins ==
    envpc = "done" =>
        \A k \in EnvKeys :
            LET defining == {x \in 1..4 : k \in DOMAIN EnvChain[x]}
            IN  IF defining = {} THEN k \notin DOMAIN env
                ELSE /\ k \in DOMAIN env
                     /\ \E x \in defining :
                            /\ \A y \in defining : y <= x
                            /\ env[k] = EnvChain[x][k]

\* one key defined by all four maps, the other by none
C13_Witness ==
    /\ envpc = "done"
    /\ \E k \in EnvKeys : \A x \in 1..4 : k \in DOMAIN EnvChain[x]
    /\ \E k \in EnvKeys : \A x \in 1..4 : k \notin DOMAIN EnvChain[x]

(***************************************************************************)
(* C14: in the map compiled from an env block, a name that is both         *)
(* captured from the process and listed in vars holds the vars value; a    *)
(* name only captured holds the process value; a name only in vars holds   *)
(* the vars value.                                                         *)
(***************************************************************************)
C14_VarsOverrideCaptured ==
    (envpc \in {"compose", "done"} /\ wenv.some) =>
        LET b    == wenv.val
            vars0 == IF b.vars.some THEN b.vars.val ELSE << >>
            capt == IF b.capture.some THEN Captured(b.capture.val, process_env) ELSE << >>
        IN  \A k \in EnvKeys :
                /\ k \in DOMAIN vars0 => (k \in DOMAIN envs.plan /\ envs.plan[k] = vars0[k])
                /\ (k \in DOMAIN capt /\ k \notin DOMAIN vars0) =>
                       (k \in DOMAIN envs.plan /\ envs.plan[k] = capt[k])

(***************************************************************************)
(* Matrix compiler: Matrix::compile (workflow.rs) and the invocations of a *)
(* planned node (compiler.rs).                                             *)
(***************************************************************************)
\* most dimensions of a matrix
MaxDims == 2

\* most cells of a dimension
MaxCells == 2

\* coords made of the index in the first dimension alone
JoinFirst(p) == IF p = << >> THEN "" ELSE ToString(p[1])

\* "0,2,1": the indices of a point joined by ","
RECURSIVE Join(_)
Join(p) ==
    IF p = << >> THEN ""
    ELSE IF Len(p) = 1 THEN ToString(p[1])
    ELSE ToString(p[1]) \o "," \o Join(Tail(p))

\* the env of the cell at zero-based index y of dimension x names the cell,
\* under the key "X" every cell has and under a key of its dimension
CellEnv(x, y) == ("X" :> Join(<<x, y>>)) @@ (("X" \o ToString(x)) :> Join(<<x, y>>))

\* the dimensions x of n cells: the first j cells carry an env, the others none
DimensionOf(x, n) ==
    {[y \in 1..n |-> [env |-> IF y <= j THEN Some(CellEnv(x, y - 1)) ELSE None]] : j \in 0..n}

\* the dimension lists with sizes[x] cells in dimension x
RECURSIVE DimensionsOf(_)
DimensionsOf(sizes) ==
    IF sizes = << >> THEN {<< >>}
    ELSE {Append(d, c) : d \in DimensionsOf(SubSeq(sizes, 1, Len(sizes) - 1)),
                         c \in DimensionOf(Len(sizes), sizes[Len(sizes)])}

\* the number of cells of every dimension
Sizes(dims) == [x \in 1..Len(dims) |-> Len(dims[x])]

\* the index tuples over dimensions of the given sizes, as a set
IndexTuplesOf(sizes) == {p \in [1..Len(sizes) -> 0..(MaxCells - 1)] : \A x \in 1..Len(sizes) : p[x] < sizes[x]}

IndexTuples(dims) == IndexTuplesOf(Sizes(dims))

\* the regexes tried on a matrix, each by the coord strings it matches: an
\* invalid one, one matching nothing, one matching everything, one per first
\* index ("^0(,|$)") and one per point ("^0,1$")
MatrixRegexes(sizes) ==
    LET points == IndexTuplesOf(sizes)
        all    == {Join(p) : p \in points} \cup {""}
    IN  {[valid |-> FALSE, matches |-> {}], [valid |-> TRUE, matches |-> {}], [valid |-> TRUE, matches |-> all]}
        \cup {[valid |-> TRUE, matches |-> {Join(p) : p \in {q \in points : Len(q) > 0 /\ q[1] = y}}] : y \in 0..(MaxCells - 1)}
        \cup {[valid |-> TRUE, matches |-> {Join(p)}] : p \in points}

\* workflow::Matrix; regex is drop of Dense and keep of Sparse
Matrices ==
    UNION {[form : {"Dense", "Sparse"},
            dimensions : DimensionsOf(sizes),
            regex : {None} \cup {Some(r) : r \in MatrixRegexes(sizes)}] : sizes \in SeqsUpTo(0..MaxCells, MaxDims)}

\* regex.is_match(coords)
IsMatch(r, coords) == coords \in r.matches

\* the product of one or more dimensions, last dimension varying fastest
RECURSIVE Product(_)
Product(dims) ==
    IF dims = << >> THEN << << >> >>
    ELSE LET rest == Product(Tail(dims))
             Row(y) == [j \in 1..Len(rest) |-> <<y>> \o rest[j]]
         IN  Flatten([y \in 1..Len(dims[1]) |-> Row(y - 1)])

\* Itertools::multi_cartesian_product; the nullary product is the build's
MultiCartesianProduct(dims, nul) == IF dims = << >> THEN nul ELSE Product(dims)

\* a Sparse matrix without keep that keeps every point
KeepsSparseDefault(m, coords) ==
    IF m.form = "Dense"
    THEN ~(m.regex.some /\ IsMatch(m.regex.val, coords))
    ELSE m.regex.some => IsMatch(m.regex.val, coords)

\* whether Matrix::compile does not `continue` past the point
Keeps(m, coords) ==
    IF m.form = "Dense"
    THEN ~(m.regex.some /\ IsMatch(m.regex.val, coords))
    ELSE m.regex.some /\ IsMatch(m.regex.val, coords)

\* the env of a point with the cells of the earlier dimension winning
RECURSIVE PointEnvFirstWins(_, _, _)
PointEnvFirstWins(dims, p, x) ==
    IF x = 0 THEN << >>
    ELSE LET cell == dims[x][p[x] + 1]
         IN  ExtendKeepOld(PointEnvFirstWins(dims, p, x - 1), IF cell.env.some THEN cell.env.val ELSE << >>)

\* the env of a point: its cells' env, extended in dimension order
RECURSIVE PointEnv(_, _, _)
PointEnv(dims, p, x) ==
    IF x = 0 THEN << >>
    ELSE LET cell == dims[x][p[x] + 1]
         IN  Extend(PointEnv(dims, p, x - 1), IF cell.env.some THEN cell.env.val ELSE << >>)

Invocation(coords, e) == [coords |-> coords, env |-> e]

RegexError == [kind |-> "RegexError"]

\* Matrix::compile
MatrixCompile(m, nul) ==
    IF m.regex.some /\ ~m.regex.val.valid THEN [ok |-> FALSE, v |-> << >>]
    ELSE LET cp   == MultiCartesianProduct(m.dimensions, nul)
             kept == SelectSeq(cp, LAMBDA p : Keeps(m, Join(p)))
         IN  [ok |-> TRUE, v |-> [j \in 1..Len(kept) |-> Invocation(Join(kept[j]), PointEnv(m.dimensions, kept[j], Len(kept[j])))]]

\* what multi_cartesian_product can yield for no dimensions at all: nothing,
\* or the one empty point
NullaryProducts == {<< >>, << << >> >>}

\* a default that is the empty Vec
invocation_none == << >>

\* Invocation { ..Default::default() }
invocation_default == <<Invocation("", << >>)>>

MatrixInit ==
    /\ PlanIdle
    /\ ExecIdle
    /\ EnvIdle
    /\ node_matrix \in {None} \cup {Some(m) : m \in Matrices}
    /\ rendered = [kind |-> "none"]
    /\ mpc = "plan"
    /\ WatchIdle
    /\ RenderIdle
    /\ LoadIdle
    /\ ArgsIdle
    /\ FormatIdle
    /\ WorkIdle
    /\ KindIdle
    /\ BuildIdle
    /\ OutputIdle

\* Compiler::plan for one node "a": its invocations, and its place in the stage
PlanNode ==
    /\ mpc = "plan"
    /\ \E nul \in NullaryProducts :
           LET c == IF node_matrix.some THEN MatrixCompile(node_matrix.val, nul)
                    ELSE [ok |-> TRUE, v |-> invocation_default]
           IN  rendered' = IF c.ok THEN [kind |-> "ok", stages |-> << <<"a">> >>, invocations |-> c.v]
                           ELSE RegexError
    /\ mpc' = "done"
    /\ UNCHANGED node_matrix
    /\ UNCHANGED notMatrix

MatrixNext == PlanNode

SpecMatrix == MatrixInit /\ [][MatrixNext]_vars

\* the matrix of the planned node, once compiled without a regex error
Compiled == mpc = "done" /\ node_matrix.some /\ rendered.kind = "ok"

\* |D1| * ... * |Dk|
RECURSIVE Volume(_)
Volume(dims) == IF dims = << >> THEN 1 ELSE Len(dims[1]) * Volume(Tail(dims))

\* the execution plan made of the planned node alone, with t tasks
NodePlan(t) ==
    [stages |-> rendered.stages,
     nodes  |-> [n \in Range(rendered.stages[1]) |-> [invocations |-> Len(rendered.invocations), tasks |-> t]]]

C16_SparseWithoutKeepIsEmpty ==
    (mpc = "done" /\ node_matrix.some /\ node_matrix.val.form = "Sparse" /\ ~node_matrix.val.regex.some) =>
        /\ rendered.kind = "ok"
        /\ rendered.invocations = << >>
        /\ "a" \in Range(rendered.stages[1])
        /\ \A t \in 0..MaxTasks :
               /\ StageItems(NodePlan(t), 1) = << >>
               /\ SignalCnt(NodePlan(t), 1) = 0

\* a Sparse matrix of 2 x 2 cells without keep has been planned
C16_Witness ==
    /\ mpc = "done"
    /\ node_matrix.some
    /\ node_matrix.val.form = "Sparse"
    /\ ~node_matrix.val.regex.some
    /\ Volume(node_matrix.val.dimensions) = 4
    /\ rendered.kind = "ok"

(***************************************************************************)
(* C17: a matrix with an empty dimension list, Dense or Sparse, with or    *)
(* without a regex, gives the node exactly one invocation with empty       *)
(* coords and empty env, as a node without matrix has.                     *)
(***************************************************************************)
C17_NoDimensionsIsNoMatrix ==
    (Compiled /\ node_matrix.val.dimensions = << >>) => rendered.invocations = invocation_default

(***************************************************************************)
(* C28: the invocations of one planned node have pairwise distinct coords, *)
(* whatever the matrix and its filter.                                     *)
(***************************************************************************)
C28_CoordsDistinct ==
    (mpc = "done" /\ rendered.kind = "ok") =>
        \A i, j \in 1..Len(rendered.invocations) :
            rendered.invocations[i].coords = rendered.invocations[j].coords => i = j

\* a matrix of two dimensions was planned with at least three invocations
C28_Witness ==
    /\ Compiled
    /\ Len(node_matrix.val.dimensions) = 2
    /\ Len(rendered.invocations) >= 3

\* the cell a point selects in dimension x
Selected(dims, p, x) == dims[x][p[x] + 1]

\* the dimensions whose selected cell defines key k
Defining(dims, p, k) ==
    {x \in 1..Len(dims) : Selected(dims, p, x).env.some /\ k \in DOMAIN Selected(dims, p, x).env.val}

\* the highest of a set of dimensions
Highest(D) == CHOOSE x \in D : \A y \in D : y <= x

\* the keys cells of the matrix define
CellKeys(dims) ==
    UNION {UNION {DOMAIN dims[x][y].env.val : y \in {z \in 1..Len(dims[x]) : dims[x][z].env.some}} :
               x \in 1..Len(dims)}

(***************************************************************************)
(* C29: the env of an emitted invocation is the union of the env maps of   *)
(* the cells its point selects: a key that cells of several dimensions     *)
(* define has the value of the highest of these dimensions, a key that no  *)
(* selected cell defines is absent.                                        *)
(***************************************************************************)
C29_EnvIsUnionInDimensionOrder ==
    Compiled =>
        LET dims == node_matrix.val.dimensions
        IN  \A j \in 1..Len(rendered.invocations) :
                LET inv == rendered.invocations[j]
                    p   == CHOOSE q \in IndexTuples(dims) : Join(q) = inv.coords
                IN  /\ DOMAIN inv.env = {k \in CellKeys(dims) : Defining(dims, p, k) # {}}
                    /\ \A k \in DOMAIN inv.env :
                           inv.env[k] = Selected(dims, p, Highest(Defining(dims, p, k))).env.val[k]

\* an invocation of a point whose cells in both dimensions define "X", and of
\* one whose cell in the second dimension defines nothing while another does
C29_Witness ==
    /\ Compiled
    /\ Len(node_matrix.val.dimensions) = 2
    /\ \E j \in 1..Len(rendered.invocations) :
           /\ rendered.invocations[j].coords = "0,0"
           /\ DOMAIN rendered.invocations[j].env = {"X", "X1", "X2"}
           /\ rendered.invocations[j].env["X"] = "2,0"
    /\ \E j \in 1..Len(rendered.invocations) :
           /\ rendered.invocations[j].coords = "0,1"
           /\ DOMAIN rendered.invocations[j].env = {"X", "X1"}

(***************************************************************************)
(* C30: a node without a matrix is planned with exactly one invocation,    *)
(* with empty coords and empty env, so that executing the plan makes       *)
(* exactly one work item for the node.                                     *)
(***************************************************************************)
C30_NoMatrixIsOneInvocation ==
    (mpc = "done" /\ ~node_matrix.some) =>
        /\ rendered.kind = "ok"
        /\ Len(rendered.invocations) = 1
        /\ rendered.invocations[1].coords = ""
        /\ rendered.invocations[1].env = << >>
        /\ \A t \in 0..MaxTasks :
               /\ Len(StageItems(NodePlan(t), 1)) = 1
               /\ StageItems(NodePlan(t), 1)[1].node = "a"

\* a node without matrix has been planned
C30_Witness == mpc = "done" /\ ~node_matrix.some /\ rendered.kind = "ok"

(***************************************************************************)
(* Watch driver: the event callback of Command::Watch and the execution    *)
(* threads it spawns (main.rs).                                            *)
(***************************************************************************)
\* most events delivered to the callback
MaxEvents == 3

\* the name of a variant as the callback spells it
Lower ==
    [Any |-> "any", File |-> "file", Folder |-> "folder", Other |-> "other", Size |-> "size",
     Content |-> "content", AccessTime |-> "accesstime", WriteTime |-> "writetime",
     Permissions |-> "permissions", Ownership |-> "ownership", Extended |-> "extended",
     To |-> "to", From |-> "from", Both |-> "both", Read |-> "read", Execute |-> "execute",
     Write |-> "write"]

AccessModes == {"Any", "Execute", "Read", "Write", "Other"}

\* notify::EventKind, a variant with its nested variants
EventKinds ==
    {<<"Create", v>> : v \in {"Any", "File", "Folder", "Other"}}
    \cup {<<"Modify", "Any">>, <<"Modify", "Other">>}
    \cup {<<"Modify", "Data", v>> : v \in {"Any", "Size", "Content", "Other"}}
    \cup {<<"Modify", "Metadata", v>> : v \in {"Any", "AccessTime", "WriteTime", "Permissions", "Ownership", "Extended", "Other"}}
    \cup {<<"Modify", "Name", v>> : v \in {"Any", "To", "From", "Both", "Other"}}
    \cup {<<"Remove", v>> : v \in {"Any", "File", "Folder", "Other"}}
    \cup {<<"Other">>, <<"Any">>}
    \cup {<<"Access", "Any">>, <<"Access", "Read">>, <<"Access", "Other">>}
    \cup {<<"Access", "Open", v>> : v \in AccessModes}
    \cup {<<"Access", "Close", v>> : v \in AccessModes}

\* the match on e.kind
event_kind(k) ==
    CASE k[1] = "Create" -> "created/" \o Lower[k[2]]
      [] k[1] = "Modify" /\ Len(k) = 2 -> "modified/" \o Lower[k[2]]
      [] k[1] = "Modify" /\ k[2] = "Data" -> "modified/data/" \o Lower[k[3]]
      [] k[1] = "Modify" /\ k[2] = "Metadata" -> "modified/metadata/" \o Lower[k[3]]
      [] k[1] = "Modify" /\ k[2] = "Name" -> "modified/name/" \o Lower[k[3]]
      [] k[1] = "Remove" -> "removed/" \o Lower[k[2]]
      [] k[1] = "Other" -> "other"
      [] k[1] = "Any" -> "any"
      [] k[1] = "Access" /\ Len(k) = 2 /\ k[2] # "Other" -> "access/" \o Lower[k[2]]
      [] k[1] = "Access" /\ Len(k) = 2 /\ k[2] = "Other" -> "other"
      [] k[1] = "Access" /\ k[2] = "Open" -> "access/open/" \o Lower[k[3]]
      [] k[1] = "Access" /\ k[2] = "Close" -> "access/close/" \o Lower[k[3]]

\* the canonical watch roots tried: "/w" and "/"
Roots == {<<"/", "w">>, <<"/">>}

\* canonicalize(root) + MAIN_SEPARATOR_STR
TrimPath(r) == r \o <<"/">>

\* the path of file f in directory r
Under(r, f) == IF r[Len(r)] = "/" THEN r \o <<f>> ELSE r \o <<"/", f>>

\* whether p starts with pat
StartsWith(p, pat) == Len(pat) <= Len(p) /\ SubSeq(p, 1, Len(pat)) = pat

\* str::trim_start_matches: pat is removed from the start for as long as it is there
RECURSIVE TrimStartMatches(_, _)
TrimStartMatches(p, pat) ==
    IF pat # << >> /\ StartsWith(p, pat) THEN TrimStartMatches(SubSeq(p, Len(pat) + 1, Len(p)), pat) ELSE p

\* the characters as one string
RECURSIVE Str(_)
Str(p) == IF p = << >> THEN "" ELSE p[1] \o Str(Tail(p))

\* format!("{}|{}", event_kind, event_path)
Filter(ev, r) == event_kind(ev.kind) \o "|" \o Str(TrimStartMatches(ev.paths[1], TrimPath(r)))

\* e.paths[0] without the trim path, as a string
event_path(ev, r) == Str(TrimStartMatches(ev.paths[1], TrimPath(r)))

\* the args given to the watch command: none, or a user arg next to one
\* that has the name of an event arg
WatchArgs == {<< >>, ("x" :> "1") @@ ("EVENT" :> "mine")}

\* the event args are kept only where the user gave none of that name
args_new_keep(a, ev, r) ==
    a @@ ("EVENT" :> Filter(ev, r)) @@ ("EVENT_KIND" :> event_kind(ev.kind)) @@ ("EVENT_PATH" :> event_path(ev, r))

\* args.clone() with EVENT, EVENT_KIND and EVENT_PATH inserted
args_new(a, ev, r) ==
    ("EVENT" :> Filter(ev, r)) @@ ("EVENT_KIND" :> event_kind(ev.kind)) @@ ("EVENT_PATH" :> event_path(ev, r)) @@ a

\* the event kinds the watcher delivers here
DeliveredKinds == {<<"Create", "File">>, <<"Access", "Other">>}

\* what the watcher hands to the callback: a notify error, an event without
\* a path (a rescan), or an event on the file f under the root
Events(r) ==
    {[err |-> TRUE, kind |-> <<"Other">>, paths |-> << >>], [err |-> FALSE, kind |-> <<"Other">>, paths |-> << >>]}
    \cup {[err |-> FALSE, kind |-> k, paths |-> <<Under(r, "f")>>] : k \in DeliveredKinds}

\* the filter regexes tried, each by the strings it matches: everything, or
\* one "<kind>|<path>" string
Filters ==
    {{k \o "|" \o q : k \in {event_kind(x) : x \in EventKinds}, q \in {"f", "/f"}}}
    \cup {{k \o "|" \o q} : k \in {"created/file", "access/other", "other"}, q \in {"f", "/f"}}

\* regex.is_match(&filter) for an event with a path
Matches(ev, r, re) == ~ev.err /\ ev.paths # << >> /\ Filter(ev, r) \in re

\* a callback that never looks at the flag
AcceptsAlways(st) == TRUE

\* the callback goes on past the flag: there is none, or it is not set
Accepts(st) == ~st.some \/ ~st.val

\* state_lock.set(true)
AfterAccept(st) == IF st.some THEN Some(TRUE) ELSE st

\* v.lock().unwrap().set(false)
AfterClear(st) == IF st.some THEN Some(FALSE) ELSE st

\* the flag is set
Busy(st) == st.some /\ st.val

Handled(ev, d) == [event |-> ev, matches |-> Matches(ev, root, regex), busy |-> Busy(exec_state), did |-> d]

WatchInit ==
    /\ PlanIdle
    /\ ExecIdle
    /\ EnvIdle
    /\ MatrixIdle
    /\ watch_args \in WatchArgs
    /\ plan_args = << >>
    /\ queue \in BOOLEAN
    /\ root \in Roots
    /\ regex \in Filters
    /\ exec_state = IF queue THEN None ELSE Some(FALSE)
    /\ watcher = "watching"
    /\ cpc = "idle"
    /\ handled = << >>
    /\ threads = << >>
    /\ RenderIdle
    /\ LoadIdle
    /\ ArgsIdle
    /\ FormatIdle
    /\ WorkIdle
    /\ KindIdle
    /\ BuildIdle
    /\ OutputIdle

\* the callback up to the flag: report an error, build the filter string
\* (e.paths[0] panics without a path), filter, test and set the flag
OnEvent ==
    /\ watcher = "watching"
    /\ cpc = "idle"
    /\ Len(handled) < MaxEvents
    /\ \E ev \in Events(root) :
           IF ev.err
           THEN /\ handled' = Append(handled, Handled(ev, "printed"))
                /\ UNCHANGED <<exec_state, cpc, watcher, plan_args>>
           ELSE IF ev.paths = << >>
           THEN /\ handled' = Append(handled, Handled(ev, "nopath"))
                /\ watcher' = "panicked"
                /\ UNCHANGED <<exec_state, cpc, plan_args>>
           ELSE IF ~Matches(ev, root, regex)
           THEN /\ handled' = Append(handled, Handled(ev, "nomatch"))
                /\ UNCHANGED <<exec_state, cpc, watcher, plan_args>>
           ELSE IF ~Accepts(exec_state)
           THEN /\ handled' = Append(handled, Handled(ev, "dropped"))
                /\ UNCHANGED <<exec_state, cpc, watcher, plan_args>>
           ELSE /\ handled' = Append(handled, Handled(ev, "accepted"))
                /\ exec_state' = AfterAccept(exec_state)
                /\ plan_args' = args_new(watch_args, ev, root)
                /\ cpc' = "plan"
                /\ UNCHANGED watcher
    /\ threads' = Append(threads, "none")
    /\ UNCHANGED <<watch_args, queue, root, regex>>
    /\ UNCHANGED notWatch

\* an event after the watcher's thread has panicked: no callback runs
EventLost ==
    /\ watcher = "panicked"
    /\ Len(handled) < MaxEvents
    /\ \E ev \in Events(root) : handled' = Append(handled, Handled(ev, "lost"))
    /\ threads' = Append(threads, "none")
    /\ UNCHANGED <<watch_args, plan_args, queue, root, regex, exec_state, watcher, cpc>>
    /\ UNCHANGED notWatch

\* the callback after the flag: c.plan(..) is Ok and the thread is spawned
SpawnExecution ==
    /\ cpc = "plan"
    /\ threads' = [threads EXCEPT ![Len(threads)] = "executing"]
    /\ cpc' = "idle"
    /\ UNCHANGED <<watch_args, plan_args, queue, root, regex, exec_state, watcher, handled>>
    /\ UNCHANGED notWatch

\* the callback after the flag: c.plan(..) is Err and unwrap panics in the
\* watcher's thread
PlanPanics ==
    /\ cpc = "plan"
    /\ handled' = [handled EXCEPT ![Len(handled)].did = "planfailed"]
    /\ watcher' = "panicked"
    /\ cpc' = "idle"
    /\ UNCHANGED <<watch_args, plan_args, queue, root, regex, exec_state, threads>>
    /\ UNCHANGED notWatch

\* the thread: execute returned Ok
ExecReturns(e) ==
    /\ threads[e] = "executing"
    /\ threads' = [threads EXCEPT ![e] = "returned"]
    /\ UNCHANGED <<watch_args, plan_args, queue, root, regex, exec_state, watcher, cpc, handled>>
    /\ UNCHANGED notWatch

\* the thread: execute returned Err and unwrap panics
ExecPanics(e) ==
    /\ threads[e] = "executing"
    /\ threads' = [threads EXCEPT ![e] = "panicked"]
    /\ UNCHANGED <<watch_args, plan_args, queue, root, regex, exec_state, watcher, cpc, handled>>
    /\ UNCHANGED notWatch

\* the thread: the flag, if any, is cleared and the thread ends
ClearFlag(e) ==
    /\ threads[e] = "returned"
    /\ exec_state' = AfterClear(exec_state)
    /\ threads' = [threads EXCEPT ![e] = "exited"]
    /\ UNCHANGED <<watch_args, plan_args, queue, root, regex, watcher, cpc, handled>>
    /\ UNCHANGED notWatch

WatchNext ==
    \/ OnEvent
    \/ EventLost
    \/ SpawnExecution
    \/ PlanPanics
    \/ \E e \in 1..Len(threads) : ExecReturns(e)
    \/ \E e \in 1..Len(threads) : ExecPanics(e)
    \/ \E e \in 1..Len(threads) : ClearFlag(e)

SpecWatch == WatchInit /\ [][WatchNext]_vars

\* a thread whose execute has returned goes on to its next statement
SpecWatchFair == SpecWatch /\ WF_vars(\E e \in 1..Len(threads) : ClearFlag(e))

\* the events whose planning or execution is under way
InFlight == {e \in 1..Len(threads) : threads[e] = "executing" \/ (cpc = "plan" /\ e = Len(threads))}

\* the events whose execution has ended, well or not, and has not cleared the flag yet
Ended == {e \in 1..Len(threads) : threads[e] \in {"returned", "panicked"}}

(***************************************************************************)
(* C18: with queue = false at most one planning or execution started by    *)
(* the callback is under way at any time, and a matched event that found   *)
(* the flag set is dropped: it is never planned and never gets a thread.   *)
(***************************************************************************)
C18_SingleFlight ==
    ~queue =>
        /\ Cardinality(InFlight) <= 1
        /\ \A e \in 1..Len(handled) :
               /\ (handled[e].matches /\ handled[e].busy) => handled[e].did \in {"dropped", "lost"}
               /\ handled[e].did \in {"dropped", "lost"} => threads[e] = "none"

\* an event was dropped while an earlier event's execution runs
C18_Witness ==
    /\ ~queue
    /\ \E e \in 1..Len(handled), d \in 1..Len(handled) :
           /\ e < d
           /\ threads[e] = "executing"
           /\ handled[d].did = "dropped"

(***************************************************************************)
(* C19: with queue = false, once the execution of an accepted event has    *)
(* ended, with or without error, the flag is eventually cleared.           *)
(***************************************************************************)
C19_FlagEventuallyCleared == (~queue /\ Ended # {}) ~> (exec_state = Some(FALSE))

(***************************************************************************)
(* C20: an error while one event is handled, in planning or in execution,  *)
(* does not stop the watch driver: the watcher keeps calling the callback  *)
(* and no flag is left set without an event in flight.                     *)
(***************************************************************************)
C20_ErrorsDoNotStopWatching ==
    /\ (\E e \in 1..Len(handled) : handled[e].did = "planfailed") => watcher = "watching"
    /\ Busy(exec_state) => (InFlight # {} \/ \E e \in 1..Len(threads) : threads[e] = "returned")

(***************************************************************************)
(* C21: with queue = true no matched event is dropped: every event whose   *)
(* "<kind>|<path>" matches the filter is planned by the callback and, once *)
(* planned, has its one execution thread, whatever earlier executions do.  *)
(***************************************************************************)
C21_QueuedEventsAllHandled ==
    queue =>
        \A e \in 1..Len(handled) :
            handled[e].matches =>
                /\ handled[e].did \in {"accepted", "planfailed"}
                /\ handled[e].did = "accepted" => (threads[e] # "none" \/ (cpc = "plan" /\ e = Len(handled)))

(***************************************************************************)
(* C22: an event is planned and executed only if the filter regex matches  *)
(* "<kind>|<path>", kind being the canonical string of the event's kind    *)
(* and path its path relative to the watch root; an event whose string     *)
(* does not match changes nothing: no plan, no thread, flag as before.     *)
(***************************************************************************)
C22_OnlyMatchingEventsTrigger ==
    \A e \in 1..Len(handled) :
        LET ev        == handled[e].event
            canonical == IF ev.kind = <<"Access", "Other">> THEN "access/other" ELSE event_kind(ev.kind)
            relative  == SubSeq(ev.paths[1], Len(ev.paths[1]), Len(ev.paths[1]))
            matching  == canonical \o "|" \o Str(relative) \in regex
        IN  (~ev.err /\ ev.paths # << >>) =>
                /\ handled[e].did \in {"accepted", "planfailed"} => matching
                /\ ~matching => (handled[e].did \in {"nomatch", "lost"} /\ threads[e] = "none")

\* the stages as the workflow and the target set alone fix them: each stage
\* holds the nodes not yet staged whose prerequisites are all staged
RECURSIVE Layers(_, _)
Layers(todo, staged) ==
    LET l == {n \in todo : PreOf(n) \subseteq staged}
    IN  IF l = {} THEN << >> ELSE <<l>> \o Layers(todo \ l, staged \cup l)

(***************************************************************************)
(* C23: whether planning succeeds, the number of stages and the set of     *)
(* names of every stage are fixed by the workflow and the target set, in   *)
(* whatever order the target set is iterated.                              *)
(***************************************************************************)
C23_StagesFixedByInput ==
    ppc = "done" =>
        /\ order.kind = "Ok" <=> (Missing = {} /\ ~Cyclic)
        /\ order.kind = "Ok" => order.stages = Layers(Reach(exec), {})

\* two stages planned from targets that were not iterated in the order of NameSeq
C23_Witness ==
    /\ order.kind = "Ok"
    /\ Len(order.stages) >= 2
    /\ Len(pushed) >= 2
    /\ pushed \notin TargetOrders

(***************************************************************************)
(* Script rendering: compile_exec_args and hb.render_template in           *)
(* Compiler::plan (compiler.rs).  Strings are kept by their characters     *)
(* where the code looks into them.                                         *)
(***************************************************************************)
\* the arg keys tried: "a", "a.b", "a.c" and "c"
ArgKeys == {<<"a">>, <<"a", ".", "b">>, <<"a", ".", "c">>, <<"c">>}

\* the arg values tried: "baz" and "x&y"
ArgValues == {<<"baz">>, <<"x", "&", "y">>}

\* the args of a call
ArgMaps == UNION {[K -> ArgValues] : K \in SUBSET ArgKeys}

\* the parts a script is made of: the text "echo ", {{a}}, {{a.b}}, {{c}} and {{{a}}}
ScriptParts ==
    {[text |-> TRUE, chars |-> <<"echo ">>, path |-> << >>, raw |-> FALSE]}
    \cup {[text |-> FALSE, chars |-> << >>, path |-> k, raw |-> FALSE] : k \in ArgKeys}
    \cup {[text |-> FALSE, chars |-> << >>, path |-> <<"a">>, raw |-> TRUE]}

\* most parts of a script
MaxParts == 2

Scripts == SeqsUpTo(ScriptParts, MaxParts)

\* key.split('.'): the names between the dots
RECURSIVE Split(_, _)
Split(k, name) ==
    IF k = << >> THEN <<name>>
    ELSE IF Head(k) = "." THEN <<name>> \o Split(Tail(k), "")
    ELSE Split(Tail(k), name \o Head(k))

\* serde_json::Value: a string or an object
JsonString(v) == [str |-> TRUE, val |-> v]

JsonObject(o) == [str |-> FALSE, val |-> o]

\* recursive_add: the value is put under the names of namespace, an entry
\* that is there is kept; as_object_mut().unwrap() panics on a string
RECURSIVE recursive_add(_, _, _)
recursive_add(namespace, parent, value) ==
    LET current_namespace == Head(namespace)
        rest              == Tail(namespace)
        there             == current_namespace \in DOMAIN parent
    IN  IF rest = << >>
        THEN [ok |-> TRUE,
              obj |-> IF there THEN parent ELSE (current_namespace :> JsonString(value)) @@ parent]
        ELSE LET p == IF there THEN parent[current_namespace] ELSE JsonObject(<< >>)
             IN  IF p.str THEN [ok |-> FALSE, obj |-> << >>]
                 ELSE LET r == recursive_add(rest, p.val, value)
                      IN  IF ~r.ok THEN r
                          ELSE [ok |-> TRUE, obj |-> (current_namespace :> JsonObject(r.obj)) @@ parent]

\* compile_exec_args, the args iterated in the order of keys
RECURSIVE compile_exec_args(_, _, _)
compile_exec_args(a, keys, values_json) ==
    IF keys = << >> THEN [ok |-> TRUE, obj |-> values_json]
    ELSE LET r == recursive_add(Split(Head(keys), ""), values_json, a[Head(keys)])
         IN  IF ~r.ok THEN r ELSE compile_exec_args(a, Tail(keys), r.obj)

\* the orders a HashMap of args may be iterated in
KeyOrders(a) == {q \in SeqsUpTo(DOMAIN a, Cardinality(DOMAIN a)) : Range(q) = DOMAIN a /\ Len(q) = Cardinality(DOMAIN a)}

\* the value a placeholder's path leads to in the args object, if any
RECURSIVE Resolve(_, _)
Resolve(names, obj) ==
    IF Head(names) \notin DOMAIN obj THEN None
    ELSE LET v == obj[Head(names)]
         IN  IF Tail(names) = << >> THEN Some(v)
             ELSE IF v.str THEN None
             ELSE Resolve(Tail(names), v.val)

\* handlebars' default escape function, html_escape, on one character
HtmlEscape(c) ==
    CASE c = "&" -> "&amp;"
      [] c = "<" -> "&lt;"
      [] c = ">" -> "&gt;"
      [] c = "\"" -> "&quot;"
      [] OTHER -> c

\* what a placeholder renders to: a string escaped unless in {{{ }}}, an object as "[object]"
RenderValue(v, raw) ==
    IF ~v.str THEN "[object]"
    ELSE IF raw THEN Str(v.val)
    ELSE Str([x \in 1..Len(v.val) |-> HtmlEscape(v.val[x])])

\* render_template in strict mode: a placeholder whose path leads nowhere is an error
RECURSIVE render_template(_, _)
render_template(parts, obj) ==
    IF parts = << >> THEN [kind |-> "Ok", text |-> ""]
    ELSE LET part == Head(parts)
             v    == Resolve(Split(part.path, ""), obj)
             rest == render_template(Tail(parts), obj)
         IN  IF ~part.text /\ ~v.some THEN [kind |-> "Handlebars", text |-> ""]
             ELSE IF rest.kind # "Ok" THEN rest
             ELSE [kind |-> "Ok", text |-> (IF part.text THEN Str(part.chars) ELSE RenderValue(v.val, part.raw)) \o rest.text]

RenderInit ==
    /\ PlanIdle
    /\ ExecIdle
    /\ EnvIdle
    /\ MatrixIdle
    /\ WatchIdle
    /\ args \in ArgMaps
    /\ script \in Scripts
    /\ arg_vals = [kind |-> "none"]
    /\ rendered_cmd = [kind |-> "none"]
    /\ rpc = "args"
    /\ LoadIdle
    /\ ArgsIdle
    /\ FormatIdle
    /\ WorkIdle
    /\ KindIdle
    /\ BuildIdle
    /\ OutputIdle

\* Compiler::plan: let arg_vals = self.compile_exec_args(args)?
StructureArgs ==
    /\ rpc = "args"
    /\ \E keys \in KeyOrders(args) :
           LET r == compile_exec_args(args, keys, << >>)
           IN  IF r.ok
               THEN /\ arg_vals' = [kind |-> "Ok", obj |-> r.obj]
                    /\ rpc' = "render"
               ELSE /\ arg_vals' = [kind |-> "panicked"]
                    /\ rpc' = "done"
    /\ UNCHANGED <<args, script, rendered_cmd>>
    /\ UNCHANGED notRender

\* Compiler::plan: let rendered_cmd = hb.render_template(&task.script, &arg_vals)?
RenderTask ==
    /\ rpc = "render"
    /\ rendered_cmd' = render_template(script, arg_vals.obj)
    /\ rpc' = "done"
    /\ UNCHANGED <<args, script, arg_vals>>
    /\ UNCHANGED notRender

RenderNext == StructureArgs \/ RenderTask

SpecRender == RenderInit /\ [][RenderNext]_vars

\* the placeholders of the script
Placeholders == {script[x] : x \in {y \in 1..Len(script) : ~script[y].text}}

(***************************************************************************)
(* C24: a script with a placeholder for which no arg was supplied makes    *)
(* planning fail with a Handlebars error; with an arg for every            *)
(* placeholder the rendered cmd is the script with every placeholder       *)
(* replaced by the value of its arg.                                       *)
(***************************************************************************)
C24_RenderSubstitutesArgs ==
    rpc = "done" =>
        IF \E ph \in Placeholders : ph.path \notin DOMAIN args
        THEN rendered_cmd.kind = "Handlebars"
        ELSE /\ rendered_cmd.kind = "Ok"
             /\ rendered_cmd.text = Str([x \in 1..Len(script) |->
                                            IF script[x].text THEN Str(script[x].chars)
                                            ELSE Str(args[script[x].path])])

(***************************************************************************)
(* Workflow::load (workflow.rs): the version is read and compared before   *)
(* the document is deserialized as a Workflow.                             *)
(***************************************************************************)
\* most characters of a version string
MaxVersionLen == 4

\* the characters version strings are made of
VersionChars == {"0", ".", "5"}

\* the version the loader compares against
Supported == <<"0", ".", "5">>

\* the YAML documents tried: well-formed or not, the version key absent, not
\* a string, or a string, and the rest fitting the Workflow schema or not
Documents ==
    {[yaml |-> FALSE, version |-> None, schema |-> FALSE]}
    \cup {[yaml |-> TRUE, version |-> ver, schema |-> sch] :
            ver \in {None, Some([str |-> FALSE, val |-> << >>])}
                    \cup {Some([str |-> TRUE, val |-> c]) : c \in SeqsUpTo(VersionChars, MaxVersionLen)},
            sch \in BOOLEAN}

\* v.version != "0.5" with a prefix comparison
IncompatiblePrefix(version) == ~StartsWith(version, Supported)

\* v.version != "0.5"
Incompatible(version) == version # Supported

LoadInit ==
    /\ PlanIdle
    /\ ExecIdle
    /\ EnvIdle
    /\ MatrixIdle
    /\ WatchIdle
    /\ RenderIdle
    /\ data \in Documents
    /\ versioned = [kind |-> "none"]
    /\ full = [kind |-> "none"]
    /\ loaded = [kind |-> "none"]
    /\ lpc = "versioned"
    /\ ArgsIdle
    /\ FormatIdle
    /\ WorkIdle
    /\ KindIdle
    /\ BuildIdle
    /\ OutputIdle

\* let v = serde_yaml::from_str::<Versioned>(data)?
ParseVersioned ==
    /\ lpc = "versioned"
    /\ IF data.yaml /\ data.version.some /\ data.version.val.str
       THEN /\ versioned' = [kind |-> "Ok", version |-> data.version.val.val]
            /\ loaded' = loaded
            /\ lpc' = "check"
       ELSE /\ versioned' = [kind |-> "SerdeYaml"]
            /\ loaded' = [kind |-> "SerdeYaml"]
            /\ lpc' = "done"
    /\ UNCHANGED <<data, full>>
    /\ UNCHANGED notLoad

\* if v.version != "0.5" { Err(Error::VersionCompatibility(..))? }
CheckVersion ==
    /\ lpc = "check"
    /\ IF Incompatible(versioned.version)
       THEN /\ loaded' = [kind |-> "VersionCompatibility"]
            /\ lpc' = "done"
       ELSE /\ loaded' = loaded
            /\ lpc' = "full"
    /\ UNCHANGED <<data, versioned, full>>
    /\ UNCHANGED notLoad

\* let wf: Workflow = serde_yaml::from_str(&data)?; Ok(wf)
DeserializeWorkflow ==
    /\ lpc = "full"
    /\ full' = [kind |-> IF data.schema THEN "Ok" ELSE "SerdeYaml"]
    /\ loaded' = full'
    /\ lpc' = "done"
    /\ UNCHANGED <<data, versioned>>
    /\ UNCHANGED notLoad

LoadNext == ParseVersioned \/ CheckVersion \/ DeserializeWorkflow

SpecLoad == LoadInit /\ [][LoadNext]_vars

\* the document has a version string
HasVersionString == data.yaml /\ data.version.some /\ data.version.val.str

(***************************************************************************)
(* C25: loading succeeds only if the document's version string is exactly  *)
(* "0.5"; with any other version string it fails with VersionCompatibility *)
(* and the document is never deserialized as a Workflow, so that a schema  *)
(* error elsewhere in it is not what is reported.                          *)
(***************************************************************************)
C25_VersionCheckedFirst ==
    (lpc = "done" /\ HasVersionString) =>
        /\ loaded.kind = "Ok" => Str(data.version.val.val) = "0.5"
        /\ Str(data.version.val.val) # "0.5" =>
               (loaded.kind = "VersionCompatibility" /\ full.kind = "none")

\* a document of version "0.50" whose rest breaks the schema was rejected for its version
C25_Witness ==
    /\ lpc = "done"
    /\ HasVersionString
    /\ Str(data.version.val.val) = "0.50"
    /\ ~data.schema
    /\ loaded.kind = "VersionCompatibility"

(***************************************************************************)
(* ClapArgumentLoader::load and CallArgs::validate (args.rs).               *)
(***************************************************************************)
\* the values of -o / -f
FormatArgs == {"yaml", "json", "json+p", "toml", "ron", "ron+p"}

\* the values of --workers tried
WorkerArgs == {1, 2}

\* the subcommands with the arguments that select the Command built from
\* them; "none" is a command line clap matched to no known subcommand
Subcommands ==
    {[name |-> "man", arg |-> a] : a \in {"manpages", "markdown"}}
    \cup {[name |-> "autocomplete", arg |-> a] : a \in {"bash", "zsh", "fish", "elvish", "powershell"}}
    \cup {[name |-> "workflow init", arg |-> a] : a \in {"min", "max", "python"}}
    \cup {[name |-> "workflow schema", arg |-> ""], [name |-> "workflow", arg |-> ""], [name |-> "none", arg |-> ""]}
    \cup {[name |-> n, arg |-> a] : n \in {"plan", "list", "describe"}, a \in FormatArgs}
    \cup {[name |-> n, arg |-> a] : n \in {"execute", "watch"}, a \in WorkerArgs}

\* the Command a subcommand is turned into
CommandOf ==
    [man |-> "Manual", autocomplete |-> "Autocomplete", execute |-> "Execute",
     plan |-> "Plan", list |-> "List", describe |-> "Describe", watch |-> "Watch"]
    @@ ("workflow init" :> "WorkflowInit") @@ ("workflow schema" :> "WorkflowSchema")

\* validate without looking at the privileges
validateAnyPrivilege(ca) ==
    IF ca.command.kind = "Watch" THEN [kind |-> "ExperimentalCommand", name |-> "watch"]
    ELSE [kind |-> "Ok", name |-> ""]

\* CallArgs::validate
validate(ca) ==
    IF ca.privileges = "Experimental" THEN [kind |-> "Ok", name |-> ""]
    ELSE IF ca.command.kind = "Watch" THEN [kind |-> "ExperimentalCommand", name |-> "watch"]
    ELSE [kind |-> "Ok", name |-> ""]

ArgsInit ==
    /\ PlanIdle
    /\ ExecIdle
    /\ EnvIdle
    /\ MatrixIdle
    /\ WatchIdle
    /\ RenderIdle
    /\ LoadIdle
    /\ argv \in [experimental : BOOLEAN, subcommand : Subcommands]
    /\ callargs = [kind |-> "none"]
    /\ validation = [kind |-> "none"]
    /\ apc = "load"
    /\ FormatIdle
    /\ WorkIdle
    /\ KindIdle
    /\ BuildIdle
    /\ OutputIdle

\* ClapArgumentLoader::load up to the CallArgs
LoadArgs ==
    /\ apc = "load"
    /\ IF argv.subcommand.name \in DOMAIN CommandOf
       THEN /\ callargs' = [kind |-> "Ok",
                            privileges |-> IF argv.experimental THEN "Experimental" ELSE "Normal",
                            command |-> [kind |-> CommandOf[argv.subcommand.name], arg |-> argv.subcommand.arg]]
            /\ apc' = "validate"
       ELSE /\ callargs' = [kind |-> "UnknownCommand"]
            /\ apc' = "done"
    /\ UNCHANGED <<argv, validation>>
    /\ UNCHANGED notArgs

\* ClapArgumentLoader::load: callargs.validate()?
Validate ==
    /\ apc = "validate"
    /\ validation' = validate(callargs)
    /\ apc' = "done"
    /\ UNCHANGED <<argv, callargs>>
    /\ UNCHANGED notArgs

ArgsNext == LoadArgs \/ Validate

SpecArgs == ArgsInit /\ [][ArgsNext]_vars

(***************************************************************************)
(* C26: validation rejects a command with ExperimentalCommand if and only  *)
(* if the command is watch and --experimental was not given; every other   *)
(* command is accepted with or without the flag, watch is accepted with it.*)
(***************************************************************************)
C26_OnlyWatchIsGated ==
    (apc = "done" /\ callargs.kind = "Ok") =>
        /\ validation.kind \in {"Ok", "ExperimentalCommand"}
        /\ validation.kind = "ExperimentalCommand" <=>
               (argv.subcommand.name = "watch" /\ ~argv.experimental)

\* watch was validated with --experimental given
C26_Witness ==
    /\ apc = "done"
    /\ argv.subcommand.name = "watch"
    /\ argv.experimental
    /\ validation.kind = "Ok"

(***************************************************************************)
(* Format::serialize and Format::deserialize (args.rs) on the plan types   *)
(* of plan.rs.  A value is first what the derived Serialize hands to the   *)
(* format (strings, options, sequences, maps, structs), then the document  *)
(* the format writes for it; deserialize reads the document back through   *)
(* the derived Deserialize of each type.                                   *)
(***************************************************************************)
\* most elements of a Vec in a plan
MaxSeq == 1

Formats ==
    {[name |-> "YAML", pretty |-> FALSE], [name |-> "TOML", pretty |-> FALSE]}
    \cup [name : {"JSON", "RON"}, pretty : BOOLEAN]

\* the types the plan is made of; an Option is << >> or <<value>>
StringType == [t |-> "string"]

OptionOf(ty) == [t |-> "option", elem |-> ty]

VecOf(ty) == [t |-> "vec", elem |-> ty]

HashMapOf(ty) == [t |-> "hashmap", elem |-> ty]

ShellType == [t |-> "struct", fields |-> [program |-> StringType, args |-> VecOf(StringType)]]

InvocationType == [t |-> "struct", fields |-> [coords |-> StringType, env |-> HashMapOf(StringType)]]

TaskType ==
    [t |-> "struct",
     fields |-> [cmd |-> StringType, env |-> HashMapOf(StringType),
                 shell |-> OptionOf(ShellType), workdir |-> OptionOf(StringType)]]

NodeType ==
    [t |-> "struct",
     fields |-> [invocations |-> VecOf(InvocationType), tasks |-> VecOf(TaskType),
                 env |-> HashMapOf(StringType),
                 shell |-> OptionOf(ShellType), workdir |-> OptionOf(StringType)]]

StageType == [t |-> "struct", fields |-> [nodes |-> VecOf(StringType)]]

ExecutionPlanType ==
    [t |-> "struct",
     fields |-> [nodes |-> HashMapOf(NodeType), stages |-> VecOf(StageType), env |-> HashMapOf(StringType)]]

\* the plans tried
RoundTripEnvs == {<< >>, [K |-> "null"]}

RoundTripShells == {<< >>, <<[program |-> "sh", args |-> <<"-c">>]>>}

RoundTripWorkdirs == {<< >>, <<"a">>, <<"null">>}

RoundTripTasks == [cmd : {"a"}, env : {<< >>}, shell : {<< >>}, workdir : RoundTripWorkdirs]

RoundTripNodes ==
    [invocations : SeqsUpTo([coords : {""}, env : RoundTripEnvs], MaxSeq),
     tasks : SeqsUpTo(RoundTripTasks, MaxSeq),
     env : RoundTripEnvs, shell : RoundTripShells, workdir : RoundTripWorkdirs]

ExecutionPlans ==
    [nodes : {<< >>} \cup {[n |-> node] : node \in RoundTripNodes},
     stages : SeqsUpTo({[nodes |-> <<"n">>]}, MaxSeq),
     env : RoundTripEnvs]

\* Serialize: what a value of type ty hands to the serializer
RECURSIVE Ser(_, _)
Ser(ty, val) ==
    CASE ty.t = "string" -> [t |-> "str", v |-> val]
      [] ty.t = "option" -> IF val = << >> THEN [t |-> "none", v |-> ""]
                            ELSE [t |-> "some", v |-> Ser(ty.elem, val[1])]
      [] ty.t = "vec" -> [t |-> "seq", v |-> [x \in DOMAIN val |-> Ser(ty.elem, val[x])]]
      [] ty.t = "hashmap" -> [t |-> "map", v |-> [k \in DOMAIN val |-> Ser(ty.elem, val[k])]]
      [] ty.t = "struct" -> [t |-> "struct", v |-> [f \in DOMAIN ty.fields |-> Ser(ty.fields[f], val[f])]]

\* the plain scalars a format reads as "no value"
NullTexts(fmt) ==
    CASE fmt.name = "YAML" -> {"null", "~", ""}
      [] fmt.name = "JSON" -> {"null"}
      [] fmt.name = "RON" -> {"None"}
      [] OTHER -> {}

\* a YAML writer that leaves every string plain
QuotedNever(fmt, str) == fmt.name # "YAML"

\* whether the format writes the string in quotes: JSON, TOML and RON always,
\* YAML when the plain text would be read as something else
Quoted(fmt, str) == fmt.name # "YAML" \/ str \in NullTexts(fmt)

\* the document a format writes for a value: a scalar (quoted or plain), a
\* sequence, a map, and for RON a struct and Some(..); TOML leaves out the
\* fields that are None
RECURSIVE Write(_, _)
Write(fmt, val) ==
    CASE val.t = "str" -> [t |-> "scalar", v |-> val.v, q |-> Quoted(fmt, val.v)]
      [] val.t = "none" -> [t |-> "scalar", v |-> IF fmt.name = "RON" THEN "None" ELSE "null", q |-> FALSE]
      [] val.t = "some" -> IF fmt.name = "RON" THEN [t |-> "some", v |-> Write(fmt, val.v), q |-> FALSE]
                           ELSE Write(fmt, val.v)
      [] val.t = "seq" -> [t |-> "seq", v |-> [x \in DOMAIN val.v |-> Write(fmt, val.v[x])], q |-> FALSE]
      [] val.t = "map" -> [t |-> "map", v |-> [k \in DOMAIN val.v |-> Write(fmt, val.v[k])], q |-> FALSE]
      [] val.t = "struct" ->
            [t |-> IF fmt.name = "RON" THEN "struct" ELSE "map",
             v |-> [k \in {f \in DOMAIN val.v : fmt.name = "TOML" => val.v[f].t # "none"} |-> Write(fmt, val.v[k])],
             q |-> FALSE]

\* Format::serialize
Serialize(fmt, p) == [kind |-> "Ok", doc |-> Write(fmt, Ser(ExecutionPlanType, p))]

\* the field k of a struct document, if it was written
Field(d, k) == IF k \in DOMAIN d.v THEN d.v[k] ELSE [t |-> "absent", v |-> "", q |-> FALSE]

\* an Option reads None from a field that is not there and from a null
IsNull(fmt, d) == d.t = "absent" \/ (d.t = "scalar" /\ ~d.q /\ d.v \in NullTexts(fmt))

\* what is inside an Option that is not None
Inner(fmt, d) == IF fmt.name = "RON" THEN d.v ELSE d

\* a struct with deny_unknown_fields: every field that is no Option, no unknown one
IsStruct(fmt, ty, d) ==
    /\ d.t = IF fmt.name = "RON" THEN "struct" ELSE "map"
    /\ {f \in DOMAIN ty.fields : ty.fields[f].t # "option"} \subseteq DOMAIN d.v
    /\ DOMAIN d.v \subseteq DOMAIN ty.fields

\* Deserialize: whether the document is read as a value of type ty
RECURSIVE Reads(_, _, _)
Reads(fmt, ty, d) ==
    CASE ty.t = "string" -> d.t = "scalar" /\ (fmt.name = "YAML" \/ d.q)
      [] ty.t = "option" -> \/ IsNull(fmt, d)
                            \/ /\ fmt.name = "RON" => d.t = "some"
                               /\ Reads(fmt, ty.elem, Inner(fmt, d))
      [] ty.t = "vec" -> d.t = "seq" /\ \A x \in DOMAIN d.v : Reads(fmt, ty.elem, d.v[x])
      [] ty.t = "hashmap" -> d.t = "map" /\ \A k \in DOMAIN d.v : Reads(fmt, ty.elem, d.v[k])
      [] ty.t = "struct" -> /\ IsStruct(fmt, ty, d)
                            /\ \A f \in DOMAIN ty.fields : Reads(fmt, ty.fields[f], Field(d, f))

\* Deserialize: the value of type ty read from the document
RECURSIVE Read(_, _, _)
Read(fmt, ty, d) ==
    CASE ty.t = "string" -> d.v
      [] ty.t = "option" -> IF IsNull(fmt, d) THEN << >> ELSE <<Read(fmt, ty.elem, Inner(fmt, d))>>
      [] ty.t = "vec" -> [x \in DOMAIN d.v |-> Read(fmt, ty.elem, d.v[x])]
      [] ty.t = "hashmap" -> [k \in DOMAIN d.v |-> Read(fmt, ty.elem, d.v[k])]
      [] ty.t = "struct" -> [f \in DOMAIN ty.fields |-> Read(fmt, ty.fields[f], Field(d, f))]

\* Format::deserialize::<ExecutionPlan>
Deserialize(fmt, d) ==
    IF Reads(fmt, ExecutionPlanType, d) THEN [kind |-> "Ok", plan |-> Read(fmt, ExecutionPlanType, d)]
    ELSE [kind |-> "Err", plan |-> << >>]

FormatInit ==
    /\ PlanIdle
    /\ ExecIdle
    /\ EnvIdle
    /\ MatrixIdle
    /\ WatchIdle
    /\ RenderIdle
    /\ LoadIdle
    /\ ArgsIdle
    /\ planned \in ExecutionPlans
    /\ format \in Formats
    /\ serialized = [kind |-> "none"]
    /\ deserialized = [kind |-> "none"]
    /\ fpc = "serialize"
    /\ WorkIdle
    /\ KindIdle
    /\ BuildIdle
    /\ OutputIdle

\* format.serialize(&x)
SerializePlan ==
    /\ fpc = "serialize"
    /\ serialized' = Serialize(format, planned)
    /\ fpc' = "deserialize"
    /\ UNCHANGED <<planned, format, deserialized>>
    /\ UNCHANGED notFormat

\* format.deserialize::<ExecutionPlan>(&plan)
DeserializePlan ==
    /\ fpc = "deserialize"
    /\ deserialized' = Deserialize(format, serialized.doc)
    /\ fpc' = "done"
    /\ UNCHANGED <<planned, format, serialized>>
    /\ UNCHANGED notFormat

FormatNext == SerializePlan \/ DeserializePlan

SpecFormat == FormatInit /\ [][FormatNext]_vars

TaskShells == {<< >>, <<[program |-> "bash", args |-> <<"-e", "-c">>]>>, <<[program |-> "python", args |-> << >>]>>}

NodeShells == {<< >>, <<[program |-> "zsh", args |-> <<"-c">>]>>, <<[program |-> "sh", args |-> <<"-x", "-c">>]>>}

\* the tasks with their nodes
TaskNodes ==
    [task : [cmd : {"echo a", "ls"}, shell : TaskShells, workdir : {<< >>, <<"/task">>}],
     node : [shell : NodeShells, workdir : {<< >>, <<"/node">>}]]

\* let workdir = if let Some(..) = &task.workdir .. else if let Some(..) = &node.workdir .. else None
Workdir(task, node) ==
    IF task.workdir # << >> THEN task.workdir
    ELSE IF node.workdir # << >> THEN node.workdir
    ELSE << >>

\* the shell of a Work that is the default whenever the task names none
ShellTaskOrDefault(task, node) ==
    IF task.shell # << >> THEN task.shell[1]
    ELSE [program |-> "sh", args |-> <<"-c">>]

\* let shell = if let Some(..) = &task.shell .. else if let Some(..) = &node.shell .. else sh -c
Shell(task, node) ==
    IF task.shell # << >> THEN task.shell[1]
    ELSE IF node.shell # << >> THEN node.shell[1]
    ELSE [program |-> "sh", args |-> <<"-c">>]

WorkInit ==
    /\ PlanIdle
    /\ ExecIdle
    /\ EnvIdle
    /\ MatrixIdle
    /\ WatchIdle
    /\ RenderIdle
    /\ LoadIdle
    /\ ArgsIdle
    /\ FormatIdle
    /\ tasknode \in TaskNodes
    /\ witem = << >>
    /\ cmd_proc = << >>
    /\ wpc = "work"
    /\ KindIdle
    /\ BuildIdle
    /\ OutputIdle

\* work.push(Work { command, env, shell, workdir })
PushWork ==
    /\ wpc = "work"
    /\ witem' = [command |-> tasknode.task.cmd,
                 shell   |-> Shell(tasknode.task, tasknode.node),
                 workdir |-> Workdir(tasknode.task, tasknode.node)]
    /\ wpc' = "spawn"
    /\ UNCHANGED <<tasknode, cmd_proc>>
    /\ UNCHANGED notWork

\* Command::new(w.shell.program), args(w.shell.args), current_dir(w) if set, arg(&w.command)
BuildCommand ==
    /\ wpc = "spawn"
    /\ cmd_proc' = [program     |-> witem.shell.program,
                    args        |-> Append(witem.shell.args, witem.command),
                    current_dir |-> witem.workdir]
    /\ wpc' = "done"
    /\ UNCHANGED <<tasknode, witem>>
    /\ UNCHANGED notWork

WorkNext == PushWork \/ BuildCommand

SpecWork == WorkInit /\ [][WorkNext]_vars

(***************************************************************************)
(* C31: the child of a task runs in task.workdir if set, else in           *)
(* node.workdir if set, else where the process is; its shell is task.shell *)
(* if set, else node.shell if set, else "sh" with ["-c"]; the cmd is the   *)
(* last argument, after the shell's args.                                  *)
(***************************************************************************)
C31_WorkdirShellChain ==
    wpc = "done" =>
        LET task == tasknode.task
            node == tasknode.node
            n    == Len(cmd_proc.args)
        IN  /\ task.workdir # << >> => cmd_proc.current_dir = task.workdir
            /\ (task.workdir = << >> /\ node.workdir # << >>) => cmd_proc.current_dir = node.workdir
            /\ (task.workdir = << >> /\ node.workdir = << >>) => cmd_proc.current_dir = << >>
            /\ n >= 1
            /\ cmd_proc.args[n] = task.cmd
            /\ task.shell # << >> =>
                   (cmd_proc.program = task.shell[1].program /\ SubSeq(cmd_proc.args, 1, n - 1) = task.shell[1].args)
            /\ (task.shell = << >> /\ node.shell # << >>) =>
                   (cmd_proc.program = node.shell[1].program /\ SubSeq(cmd_proc.args, 1, n - 1) = node.shell[1].args)
            /\ (task.shell = << >> /\ node.shell = << >>) =>
                   (cmd_proc.program = "sh" /\ cmd_proc.args = <<"-c", task.cmd>>)

\* a task without shell and workdir ran with those of its node
C31_Witness ==
    /\ wpc = "done"
    /\ tasknode.task.shell = << >>
    /\ tasknode.task.workdir = << >>
    /\ cmd_proc.program = "zsh"
    /\ cmd_proc.current_dir = <<"/node">>

KindInit ==
    /\ PlanIdle
    /\ ExecIdle
    /\ EnvIdle
    /\ MatrixIdle
    /\ WatchIdle
    /\ RenderIdle
    /\ LoadIdle
    /\ ArgsIdle
    /\ FormatIdle
    /\ WorkIdle
    /\ events \in EventKinds \X EventKinds
    /\ kind_strs = << >>
    /\ kpc = "mapping"
    /\ BuildIdle
    /\ OutputIdle

\* the callback maps the kind of the next event
MapKind ==
    /\ kpc = "mapping"
    /\ Len(kind_strs) < Len(events)
    /\ kind_strs' = Append(kind_strs, event_kind(events[Len(kind_strs) + 1]))
    /\ UNCHANGED <<events, kpc>>
    /\ UNCHANGED notKind

\* no event is left
MapEnd ==
    /\ kpc = "mapping"
    /\ Len(kind_strs) = Len(events)
    /\ kpc' = "done"
    /\ UNCHANGED <<events, kind_strs>>
    /\ UNCHANGED notKind

KindNext == MapKind \/ MapEnd

SpecKind == KindInit /\ [][KindNext]_vars

\* the taxonomy's name of a category
Category ==
    [Create |-> "created", Modify |-> "modified", Remove |-> "removed", Access |-> "access",
     Data |-> "data", Metadata |-> "metadata", Name |-> "name", Open |-> "open", Close |-> "close"]

\* the taxonomy's string of a kind: its category path, the names joined by "/"
RECURSIVE Canonical(_)
Canonical(k) ==
    LET name == IF Len(k) > 1 THEN Category[k[1]] ELSE Lower[k[1]]
    IN  IF Len(k) = 1 THEN name ELSE name \o "/" \o Canonical(Tail(k))

\* the strings that start with "access/"
AccessStrings ==
    {"access/" \o v : v \in {"any", "read", "other"}}
    \cup {"access/" \o c \o "/" \o Lower[m] : c \in {"open", "close"}, m \in AccessModes}

(***************************************************************************)
(* C34: every event kind is mapped to the taxonomy's string of its own     *)
(* category path; every access kind, access "other" too, to a string that  *)
(* starts with "access/"; and two different kinds to two different strings.*)
(***************************************************************************)
C34_KindStringsCanonical ==
    /\ \A i \in 1..Len(kind_strs) :
           /\ kind_strs[i] = Canonical(events[i])
           /\ events[i][1] = "Access" => kind_strs[i] \in AccessStrings
    /\ \A i, j \in 1..Len(kind_strs) : events[i] # events[j] => kind_strs[i] # kind_strs[j]


(***************************************************************************)
(* Compiler::plan: determine_order, then the loop over the stages that     *)
(* fills plan.nodes and plan.stages (compiler.rs).                         *)
(***************************************************************************)
\* the task lists of a workflow node tried: `tasks: []` and one task
TaskLists == {<< >>, <<"echo a">>}

\* the orders a HashSet may be iterated in
Orders(S) == {q \in SeqsUpTo(S, Cardinality(S)) : Range(q) = S /\ Len(q) = Cardinality(S)}

\* plan::Node of a workflow node without env, shell, workdir and matrix
rendered_node(tasks) ==
    [invocations |-> invocation_default,
     tasks |-> [i \in 1..Len(tasks) |-> [cmd |-> tasks[i], shell |-> << >>, env |-> << >>, workdir |-> << >>]],
     env |-> << >>, shell |-> << >>, workdir |-> << >>]

\* an insertion that leaves out the nodes without a task
insert_with_tasks(nodes, stage, defs) ==
    [n \in {x \in stage : defs[x] # << >>} |-> rendered_node(defs[n])] @@ nodes

\* plan.nodes.insert(node.clone(), rendered_node) for every node of a stage
insert(nodes, stage, defs) == [n \in stage |-> rendered_node(defs[n])] @@ nodes

BuildInit ==
    /\ workflow \in PlainWorkflows
    /\ pending \in TargetOrders
    /\ exec = Range(pending)
    /\ pushed = pending
    /\ seen = {}
    /\ map = << >>
    /\ result = <<>>
    /\ ppc = "traverse"
    /\ order = NoOrder
    /\ ExecIdle
    /\ EnvIdle
    /\ MatrixIdle
    /\ WatchIdle
    /\ RenderIdle
    /\ LoadIdle
    /\ ArgsIdle
    /\ FormatIdle
    /\ WorkIdle
    /\ KindIdle
    /\ node_tasks \in [DOMAIN workflow -> TaskLists]
    /\ built = [kind |-> "none", stages |-> << >>, nodes |-> << >>]
    /\ bpc = "order"
    /\ OutputIdle

\* `self.determine_order(nodes)?` returned an error
OrderFails ==
    /\ bpc = "order"
    /\ ppc = "done"
    /\ order.kind # "Ok"
    /\ built' = [kind |-> order.kind, stages |-> << >>, nodes |-> << >>]
    /\ bpc' = "done"
    /\ UNCHANGED node_tasks
    /\ UNCHANGED notBuild

\* `self.determine_order(nodes)?` returned the stages: the empty plan
OrderOk ==
    /\ bpc = "order"
    /\ ppc = "done"
    /\ order.kind = "Ok"
    /\ bpc' = "stages"
    /\ UNCHANGED <<node_tasks, built>>
    /\ UNCHANGED notBuild

\* one iteration of `for stage in stages`: the stage's HashSet is iterated in
\* some order, every node is rendered, inserted and pushed
RenderStage ==
    /\ bpc = "stages"
    /\ Len(built.stages) < Len(order.stages)
    /\ LET stage == order.stages[Len(built.stages) + 1]
       IN  \E q \in Orders(stage) :
               built' = [built EXCEPT !.stages = Append(@, q), !.nodes = insert(@, stage, node_tasks)]
    /\ UNCHANGED <<node_tasks, bpc>>
    /\ UNCHANGED notBuild

\* the loop ends: Ok(plan)
PlanOk ==
    /\ bpc = "stages"
    /\ Len(built.stages) = Len(order.stages)
    /\ built' = [built EXCEPT !.kind = "Ok"]
    /\ bpc' = "done"
    /\ UNCHANGED node_tasks
    /\ UNCHANGED notBuild

BuildNext == PlanNext \/ OrderFails \/ OrderOk \/ RenderStage \/ PlanOk

SpecBuild == BuildInit /\ [][BuildNext]_vars

(***************************************************************************)
(* C35: every node of a plan the planner returned has at least one task: a *)
(* workflow node with `tasks: []` is in no successfully produced plan.     *)
(***************************************************************************)
C35_PlannedNodesHaveTasks ==
    built.kind = "Ok" => \A n \in DOMAIN built.nodes : built.nodes[n].tasks # << >>

(***************************************************************************)
(* C37: in a returned plan every planned node name is in exactly one stage *)
(* and there exactly once, and the keys of plan.nodes are the names in the *)
(* stages: the lookup of a staged name in plan.nodes finds its node.       *)
(***************************************************************************)
C37_StagesPartitionNodes ==
    built.kind = "Ok" =>
        LET places == {<<i, j>> \in (1..Len(built.stages)) \X (1..Cardinality(Names)) : j <= Len(built.stages[i])}
            staged == {built.stages[p[1]][p[2]] : p \in places}
        IN  /\ \A n \in staged : Cardinality({p \in places : built.stages[p[1]][p[2]] = n}) = 1
            /\ DOMAIN built.nodes = staged
            /\ staged = Reach(exec)

\* a plan is returned with two stages, one of them of two nodes
C37_Witness ==
    /\ built.kind = "Ok"
    /\ Len(built.stages) = 2
    /\ \E i \in 1..2 : Len(built.stages[i]) = 2


\* the index of the returned stage that holds n
StageOf(n) == CHOOSE i \in 1..Len(order.stages) : n \in order.stages[i]

\* the greatest number of a set of naturals, 0 for the empty set
Max(S) == IF S = {} THEN 0 ELSE CHOOSE x \in S : \A y \in S : y <= x

\* the number of nodes on the longest prerequisite chain that ends in n and
\* has at most k nodes
RECURSIVE ChainLen(_, _)
ChainLen(n, k) == IF k = 0 THEN 0 ELSE 1 + Max({ChainLen(p, k - 1) : p \in PreOf(n)})

(***************************************************************************)
(* C38: the returned stages are the earliest ones: the first stage is the  *)
(* planned nodes without prerequisites, every other planned node is in the *)
(* stage right after the latest stage of its prerequisites, no stage is    *)
(* empty, and there are as many stages as the longest prerequisite chain   *)
(* among the planned nodes has nodes.                                      *)
(***************************************************************************)
C38_EarliestStages ==
    (ppc = "done" /\ order.kind = "Ok") =>
        /\ \A i \in 1..Len(order.stages) : order.stages[i] # {}
        /\ Planned = Reach(exec)
        /\ \A n \in Planned :
               /\ StageOf(n) = 1 <=> PreOf(n) = {}
               /\ StageOf(n) = 1 + Max({StageOf(p) : p \in PreOf(n)})
        /\ Len(order.stages) = Max({ChainLen(n, Cardinality(Names)) : n \in Planned})

\* three stages are returned, the node of the last one with two prerequisites
\* that lie in different stages
C38_Witness ==
    /\ ppc = "done"
    /\ order.kind = "Ok"
    /\ Len(order.stages) = 3
    /\ \E n \in order.stages[3] : Cardinality(PreOf(n)) = 2


\* what is left to do at most: 0 when determine_order has returned, in the
\* drain loop the size of the map, in the traversal the unseen names, each
\* with the pushes its visit may make, and the entries of pending
Rank ==
    CASE ppc = "traverse" ->
             2 + Cardinality(Names) + Cardinality(Names \ seen) * (MaxPre + 1) + Len(pending)
      [] ppc = "drain" -> 1 + Cardinality(DOMAIN map)
      [] OTHER -> 0

(***************************************************************************)
(* C39: stratification terminates, cycles and missing references or not:   *)
(* every step of determine_order lowers a natural number.  The traversal   *)
(* visits a node only if it has not visited it before, and a drain either  *)
(* removes at least one node from the map or returns NodeRecursion.        *)
(***************************************************************************)
C39_StratificationTerminates ==
    [][/\ Rank' < Rank
       /\ (ppc = "traverse" /\ map' # map) =>
              LET next == pending[Len(pending)]
              IN  /\ next \notin seen
                  /\ next \notin DOMAIN map
                  /\ seen' = seen \cup {next}
                  /\ DOMAIN map' = DOMAIN map \cup {next}
       /\ (ppc = "drain" /\ DOMAIN map # {}) =>
              \/ /\ DOMAIN map' \subseteq DOMAIN map
                 /\ DOMAIN map' # DOMAIN map
                 /\ ppc' = "drain"
              \/ /\ ppc' = "done"
                 /\ order'.kind = "NodeRecursion"]_vars

\* determine_order has returned NodeRecursion after a drain that removed
\* nodes, for targets that reach a cycle
C39_Witness ==
    /\ ppc = "done"
    /\ Cyclic
    /\ order.kind = "NodeRecursion"
    /\ seen # {}


(***************************************************************************)
(* Child output: the line callback that execute hands InteractiveProcess   *)
(* (exec.rs) and the Controller it prints through.  One callback at a time *)
(* runs per worker; the callbacks of different workers run concurrently.   *)
(***************************************************************************)
\* the prefixes tried
Prefixes == {"", "> "}

\* what the children of worker w may hand to the callback: one line, or an
\* unreadable line and then two lines
ChildOutputs(w) ==
    {<<[ok |-> TRUE, v |-> "out " \o ToString(w)]>>,
     <<[ok |-> FALSE, v |-> ""], [ok |-> TRUE, v |-> "out " \o ToString(w)], [ok |-> TRUE, v |-> "err " \o ToString(w)]>>}

\* ExecutionEngine::new: Controller::new(!silent, prefix, stdout)
new(prefix, silent) == [enabled |-> ~silent, prefix |-> prefix]

\* Controller::print: the writes of "<prefix><line>\n" when enabled, none otherwise
print(c, v) == IF c.enabled THEN <<c.prefix, v, "\n">> ELSE << >>

\* a lock that is handed out whoever holds it
lock_unguarded(m) == TRUE

\* loc_out.lock(): the mutex is free
lock(m) == m = 0

OutputInit ==
    /\ PlanIdle
    /\ ExecIdle
    /\ EnvIdle
    /\ MatrixIdle
    /\ WatchIdle
    /\ RenderIdle
    /\ LoadIdle
    /\ ArgsIdle
    /\ FormatIdle
    /\ WorkIdle
    /\ KindIdle
    /\ BuildIdle
    /\ \E prefix \in Prefixes, silent \in BOOLEAN : output = new(prefix, silent)
    /\ mutex = 0
    /\ \E n \in 1..MaxWorkers : child_out \in [1..n -> UNION {ChildOutputs(w) : w \in 1..n}]
    /\ \A w \in DOMAIN child_out : child_out[w] \in ChildOutputs(w)
    /\ printing = [w \in DOMAIN child_out |-> << >>]
    /\ sink = << >>

\* the callback of worker w is called with Err(..): nothing is done
SkipLine(w) ==
    /\ mutex # w
    /\ child_out[w] # << >>
    /\ ~Head(child_out[w]).ok
    /\ child_out' = [child_out EXCEPT ![w] = Tail(@)]
    /\ UNCHANGED <<output, mutex, printing, sink>>
    /\ UNCHANGED notOutput

\* the callback of worker w is called with Ok(v): it takes the lock and
\* calls print
LockAndPrint(w) ==
    /\ mutex # w
    /\ child_out[w] # << >>
    /\ Head(child_out[w]).ok
    /\ lock(mutex)
    /\ mutex' = w
    /\ printing' = [printing EXCEPT ![w] = print(output, Head(child_out[w]).v)]
    /\ UNCHANGED <<output, child_out, sink>>
    /\ UNCHANGED notOutput

\* print of worker w makes its next write to the sink
WriteSink(w) ==
    /\ printing[w] # << >>
    /\ sink' = Append(sink, Head(printing[w]))
    /\ printing' = [printing EXCEPT ![w] = Tail(@)]
    /\ UNCHANGED <<output, mutex, child_out>>
    /\ UNCHANGED notOutput

\* print has returned: the callback ends and its guard is dropped
Unlock(w) ==
    /\ child_out[w] # << >>
    /\ Head(child_out[w]).ok
    /\ printing[w] = << >>
    /\ mutex = w
    /\ mutex' = 0
    /\ child_out' = [child_out EXCEPT ![w] = Tail(@)]
    /\ UNCHANGED <<output, printing, sink>>
    /\ UNCHANGED notOutput

OutputNext ==
    \/ \E w \in DOMAIN child_out : SkipLine(w)
    \/ \E w \in DOMAIN child_out : LockAndPrint(w)
    \/ \E w \in DOMAIN child_out : WriteSink(w)
    \/ \E w \in DOMAIN child_out : Unlock(w)

SpecOutput == OutputInit /\ [][OutputNext]_vars

\* the lines the workers' children hand to the callback
Lines == UNION {{o[i].v : i \in {j \in 1..Len(o) : o[j].ok}} : o \in UNION {ChildOutputs(w) : w \in 1..MaxWorkers}}

(***************************************************************************)
(* C36: what the workers print through the controller is serialized by its *)
(* mutex: the sink holds whole units of prefix, line and "\n", one after   *)
(* the other, a unit being incomplete only while its writer holds the      *)
(* lock; and nothing is written when the controller is disabled.           *)
(***************************************************************************)
C36_LinesWrittenWhole ==
    /\ ~output.enabled => sink = << >>
    /\ \A i \in 1..Len(sink) :
           /\ i % 3 = 1 => sink[i] = output.prefix
           /\ i % 3 = 2 => sink[i] \in Lines
           /\ i % 3 = 0 => sink[i] = "\n"
    /\ Len(sink) % 3 # 0 => (mutex # 0 /\ Len(printing[mutex]) = 3 - (Len(sink) % 3))
    /\ mutex = 0 => \A w \in DOMAIN printing : printing[w] = << >>

\* a worker is in the middle of printing a line, after a line of another
\* worker, while a third line waits for the lock
C36_Witness ==
    /\ output.enabled
    /\ mutex # 0
    /\ Len(sink) > 3
    /\ Len(sink) % 3 = 2
    /\ sink[2] # sink[Len(sink)]
    /\ \E w \in DOMAIN child_out \ {mutex} : child_out[w] # << >> /\ Head(child_out[w]).ok


(***************************************************************************)
(* C32: arg structuring gives one nested object in which the path of every *)
(* arg key, split at the dots, leads to the string value of that key; keys *)
(* with a common prefix go through the same objects.                       *)
(***************************************************************************)
C32_EveryKeyReachesItsValue ==
    rpc \in {"render", "done"} =>
        /\ arg_vals.kind = "Ok"
        /\ \A k \in DOMAIN args : Resolve(Split(k, ""), arg_vals.obj) = Some(JsonString(args[k]))

(***************************************************************************)
(* C40: arg structuring completes without aborting and gives the same      *)
(* object in whatever order the keys are processed, also when one key is a *)
(* dotted prefix of another.                                               *)
(***************************************************************************)
C40_StructuringOrderIndependent ==
    rpc \in {"render", "done"} =>
        \A keys \in KeyOrders(args) :
            LET r == compile_exec_args(args, keys, << >>)
            IN  r.ok /\ arg_vals.kind = "Ok" /\ r.obj = arg_vals.obj

====
